---- MODULE Spec2Model ----
(***************************************************************************)
(* Threaded comment-and-vote store of the Yoruba Cinemax server:           *)
(* src/api/comments.ts (router), src/unnamed/part_000 (shared session      *)
(* validator), src/unnamed/part_001 (JsonFileStorage) and the rate limiter *)
(* of src/server.ts.                                                       *)
(*                                                                         *)
(* Every request handler of the router is synchronous (readFileSync ...    *)
(* atomicWrite ... res.json), so one handler run is one atomic step of the *)
(* single Node.js event loop; the clock (Date.now()) is the environment.   *)
(***************************************************************************)
EXTENDS Integers, Sequences, FiniteSets, TLC

VARIABLES
    db,            \* the parsed content of data/comments.json: [comments, upvotes]
    now,           \* Date.now(), in milliseconds
    userRequests,  \* server.ts: Map<string, number[]> of the rate limiter
    last,          \* the last request handled and its response
    checks,        \* history: per user, the rate-limit checks made and their verdicts
    mutations,     \* history: per user, the instants of the successful comment mutations
    probe,         \* the session under test and the verdicts of the two validators
    history,       \* history: the request answered before last, and the votes
                   \* recorded on ids that named no comment
    loop,          \* the event loop: the requests received and their handlers' frames
    disk,          \* the data directory: [files, failing], files by path, and
                   \* whether writes to the directory fail
    store          \* JsonFileStorage: the call in progress, its outcome and what
                   \* the last read returned

vars == <<db, now, userRequests, last, checks, mutations, probe, history, loop,
          disk, store>>

(***************************************************************************)
(* Bounds of the model.                                                    *)
(***************************************************************************)
MaxClock == 2        \* Spec: the instants are 1..MaxClock
MaxComments == 2     \* Spec, SpecRead: comments stored in the whole document
MaxTreeClock == 3    \* SpecTree: the instants are 1..MaxTreeClock
MaxTreeComments == 3 \* SpecTree: comments stored in the whole document
MaxRateTick == 2     \* SpecRate, SpecMutations: the instants are Instant(0..MaxRateTick)
MaxVoteClock == 2    \* SpecVotes: the instants are 1..MaxVoteClock
MaxVoteComments == 2 \* SpecVotes: comments stored in the whole document
MaxBodyLen == 2      \* SpecPayload: characters in a comment body
MaxInFlight == 3     \* SpecConcurrent: requests received by the server
MaxStoreComments == 1 \* SpecStore: comments stored in the whole document
MaxScanLen == 3      \* SpecCascade: comments in the list the loop scans

(***************************************************************************)
(* JavaScript values of a request body.  A primitive is a record           *)
(* [t, s, n]: its typeof tag, its string content and its number content.   *)
(***************************************************************************)
Undefined == [t |-> "undefined", s |-> "", n |-> 0]
Null == [t |-> "null", s |-> "", n |-> 0]
Str(x) == [t |-> "string", s |-> x, n |-> 0]
Num(k) == [t |-> "number", s |-> "", n |-> k]

\* the session.user object: { id, role } (name, email, username are never read)
UserObj(id, role) == [t |-> "object", id |-> id, role |-> role]
\* the session object: { token, user, expires }
SessionObj(token, user, expires) ==
    [t |-> "object", token |-> token, user |-> user, expires |-> expires]

\* typeof v: typeof null is "object"
TypeOf(v) == IF v.t = "null" THEN "object" ELSE v.t

\* !v
Falsy(v) ==
    \/ v.t \in {"undefined", "null"}
    \/ v.t = "string" /\ v.s = ""
    \/ v.t = "number" /\ v.n = 0

(***************************************************************************)
(* Session validation: the validator local to the comments router and the  *)
(* shared one of api/auth used by the other endpoints of the server.       *)
(***************************************************************************)
\* validateSession without the token check
validateSessionNoToken(session, clock) ==
    IF Falsy(session) \/ TypeOf(session) # "object" THEN FALSE
    ELSE IF \/ Falsy(session.user)
            \/ TypeOf(session.user) # "object"
            \/ TypeOf(session.user.id) # "string"
            \/ Falsy(session.user.id) THEN FALSE
    ELSE IF TypeOf(session.expires) # "number" THEN FALSE
    ELSE IF session.expires.n <= clock THEN FALSE
    ELSE TRUE

\* validateSession with the expiry test session.expires < Date.now()
validateSessionExpiryInclusive(session, clock) ==
    IF Falsy(session) \/ TypeOf(session) # "object" THEN FALSE
    ELSE IF \/ Falsy(session.user)
            \/ TypeOf(session.user) # "object"
            \/ TypeOf(session.user.id) # "string"
            \/ Falsy(session.user.id) THEN FALSE
    ELSE IF TypeOf(session.token) # "string" \/ Falsy(session.token) THEN FALSE
    ELSE IF TypeOf(session.expires) # "number" THEN FALSE
    ELSE IF session.expires.n < clock THEN FALSE
    ELSE TRUE

validateSession(session, clock) ==
    IF Falsy(session) \/ TypeOf(session) # "object" THEN FALSE
    ELSE IF \/ Falsy(session.user)
            \/ TypeOf(session.user) # "object"
            \/ TypeOf(session.user.id) # "string"
            \/ Falsy(session.user.id) THEN FALSE
    ELSE IF TypeOf(session.token) # "string" \/ Falsy(session.token) THEN FALSE
    ELSE IF TypeOf(session.expires) # "number" THEN FALSE
    ELSE IF session.expires.n <= clock THEN FALSE
    ELSE TRUE

\* the shared validator without the typeof session.token test: !session.token
authValidateSessionAnyToken(session, clock) ==
    IF Falsy(session) \/ TypeOf(session) # "object" THEN FALSE
    ELSE IF \/ Falsy(session.user)
            \/ TypeOf(session.user) # "object"
            \/ TypeOf(session.user.id) # "string"
            \/ Falsy(session.user.id) THEN FALSE
    ELSE IF Falsy(session.token) THEN FALSE
    ELSE IF TypeOf(session.expires) # "number" THEN FALSE
    ELSE IF session.expires.n <= clock THEN FALSE
    ELSE TRUE

\* the shared validator without the !session.user.id test
authValidateSessionAnyId(session, clock) ==
    IF Falsy(session) \/ TypeOf(session) # "object" THEN FALSE
    ELSE IF \/ Falsy(session.user)
            \/ TypeOf(session.user) # "object"
            \/ TypeOf(session.user.id) # "string" THEN FALSE
    ELSE IF TypeOf(session.token) # "string" \/ Falsy(session.token) THEN FALSE
    ELSE IF TypeOf(session.expires) # "number" THEN FALSE
    ELSE IF session.expires.n <= clock THEN FALSE
    ELSE TRUE

authValidateSession(session, clock) ==
    IF Falsy(session) \/ TypeOf(session) # "object" THEN FALSE
    ELSE IF \/ Falsy(session.user)
            \/ TypeOf(session.user) # "object"
            \/ TypeOf(session.user.id) # "string"
            \/ Falsy(session.user.id) THEN FALSE
    ELSE IF TypeOf(session.token) # "string" \/ Falsy(session.token) THEN FALSE
    ELSE IF TypeOf(session.expires) # "number" THEN FALSE
    ELSE IF session.expires.n <= clock THEN FALSE
    ELSE TRUE

(***************************************************************************)
(* The stores.  data/users.json is read-only for this subsystem.           *)
(***************************************************************************)
\* getUsers(): the content of data/users.json
getUsers ==
    << [id |-> "u1", name |-> "Ann", role |-> "admin"],
       [id |-> "u2", name |-> "Bob", role |-> "user"] >>

\* getUsers().find(u => u.id === uid): the set holding the first match, or {}
FindUser(uid) ==
    LET hits == {i \in 1..Len(getUsers) : getUsers[i].id = uid}
    IN  IF hits = {} THEN {}
        ELSE {getUsers[CHOOSE i \in hits : \A j \in hits : i <= j]}

\* readJsonFile(COMMENTS_PATH, ...) when the file is absent
EmptyDb == [comments |-> [m \in {} |-> <<>>], upvotes |-> [c \in {} |-> <<>>]]

(***************************************************************************)
(* The files.  The text JSON.stringify(data, null, 2) of a document is     *)
(* written in the chunks of JsonChunks; a file is the chunks it holds so   *)
(* far: [exists, len, comments, upvotes], complete when len is the number  *)
(* of chunks.  Of the file at COMMENTS_PATH the state keeps [exists, len]  *)
(* in disk.files and, in db, the document its text parses to: a complete   *)
(* text is JSON.stringify(db), and of a text cut short nothing but its     *)
(* length can be observed.                                                 *)
(***************************************************************************)
COMMENTS_PATH == "comments.json"

JsonChunks == <<"{", "comments", "upvotes", "}">>

NoFile == [exists |-> FALSE, len |-> 0, comments |-> EmptyDb.comments,
           upvotes |-> EmptyDb.upvotes]

\* JSON.stringify of a comment: a property whose value is undefined is left out
JsonComment(c) ==
    IF c.rating = Undefined
    THEN [id |-> c.id, parentId |-> c.parentId, reviewer |-> c.reviewer,
          userId |-> c.userId, comment |-> c.comment, date |-> c.date]
    ELSE c

\* the comment object JSON.parse builds: reading a property the text does
\* not have yields undefined
ParsedComment(e) ==
    IF "rating" \in DOMAIN e
    THEN e
    ELSE [id |-> e.id, parentId |-> e.parentId, reviewer |-> e.reviewer,
          userId |-> e.userId, comment |-> e.comment, date |-> e.date,
          rating |-> Undefined]

\* the first n chunks of JSON.stringify(data, null, 2)
JsonText(data, n) ==
    [exists |-> TRUE, len |-> n,
     comments |-> IF n >= 2
                  THEN [m \in DOMAIN data.comments |->
                           [i \in 1..Len(data.comments[m]) |->
                               JsonComment(data.comments[m][i])]]
                  ELSE EmptyDb.comments,
     upvotes |-> IF n >= 3 THEN data.upvotes ELSE EmptyDb.upvotes]

\* JSON.stringify(data, null, 2)
JsonStringify(data) == JsonText(data, Len(JsonChunks))

\* JSON.parse(text): throws unless the text is complete
JsonParse(file) ==
    IF file.len # Len(JsonChunks)
    THEN [ok |-> FALSE, value |-> EmptyDb]
    ELSE [ok |-> TRUE,
          value |-> [comments |-> [m \in DOMAIN file.comments |->
                                      [i \in 1..Len(file.comments[m]) |->
                                          ParsedComment(file.comments[m][i])]],
                     upvotes |-> file.upvotes]]

\* readJsonFile(filePath, defaultValue) of the router
readJsonFile(file, defaultValue) ==
    IF ~file.exists THEN defaultValue
    ELSE LET parsed == JsonParse(file)
         IN  IF parsed.ok THEN parsed.value ELSE defaultValue

\* what the state keeps of `file` at `path`
Kept(path, file) ==
    IF path = COMMENTS_PATH THEN [exists |-> file.exists, len |-> file.len] ELSE file

\* the file at `path`
FileAt(path) ==
    LET kept == disk.files[path]
    IN  IF path # COMMENTS_PATH THEN kept
        ELSE IF kept.exists /\ kept.len = Len(JsonChunks) THEN JsonStringify(db)
        ELSE [NoFile EXCEPT !.exists = kept.exists, !.len = kept.len]

\* `file` is put at `path`: the state after it
FilePut(path, file) ==
    /\ disk' = [disk EXCEPT !.files[path] = Kept(path, file)]
    /\ db' = IF path = COMMENTS_PATH THEN readJsonFile(file, EmptyDb) ELSE db

\* readCommentsDb(): readJsonFile(COMMENTS_PATH, { comments: {}, upvotes: {} }),
\* the document db holds
readCommentsDb == db

\* atomicWrite(path, content) of api/utils: content goes to a temporary sibling
\* file that is renamed onto path; the call blocks until the rename is done
\* and the file at path then holds content
atomicWrite(path, content) == FilePut(path, content)

\* atomicWrite throws when the write fails, and the file at path is as it was
atomicWriteThrows == disk.failing

\* writeCommentsDb(data)
writeCommentsDb(data) == atomicWrite(COMMENTS_PATH, JsonStringify(data))

\* a property key: obj[v] converts v with String(v)
Key(v) == IF v.t = "string" THEN v.s ELSE v.t

\* id: `comment_${Date.now()}`
CommentId(t) == "comment_" \o ToString(t)

\* new Date().toISOString(), and new Date(date).getTime() on it
IsoDate(t) == <<"iso", t>>
GetTime(date) == date[2]

\* f with key k set to v (obj[k] = v)
SetKey(f, k, v) == [x \in DOMAIN f \cup {k} |-> IF x = k THEN v ELSE f[x]]

\* obj[k] || []
GetOrEmpty(f, k) == IF k \in DOMAIN f THEN f[k] ELSE <<>>

\* f without the keys of ks (delete obj[k] for each k)
Without(f, ks) == [x \in DOMAIN f \ ks |-> f[x]]

\* replace without the g flag: the first occurrence of ch alone is replaced
RECURSIVE ReplaceFirst(_, _, _)
ReplaceFirst(str, ch, by) ==
    IF str = <<>> THEN <<>>
    ELSE IF Head(str) = ch THEN by \o Tail(str)
    ELSE <<Head(str)>> \o ReplaceFirst(Tail(str), ch, by)

\* str.replace("<", "&lt;").replace(">", "&gt;")
sanitizeFirstOnly(str) ==
    ReplaceFirst(ReplaceFirst(str, "<", <<"&", "l", "t", ";">>), ">", <<"&", "g", "t", ";">>)

\* str.replace(/</g, "&lt;").replace(/>/g, "&gt;") on a sequence of characters
RECURSIVE sanitize(_)
sanitize(str) ==
    IF str = <<>> THEN <<>>
    ELSE (IF Head(str) = "<" THEN <<"&", "l", "t", ";">>
          ELSE IF Head(str) = ">" THEN <<"&", "g", "t", ";">>
          ELSE <<Head(str)>>) \o sanitize(Tail(str))

\* the number of comments stored in the whole document
RECURSIVE SumLen(_, _)
SumLen(f, ks) ==
    IF ks = {} THEN 0
    ELSE LET k == CHOOSE x \in ks : TRUE IN Len(f[k]) + SumLen(f, ks \ {k})

Stored == SumLen(db.comments, DOMAIN db.comments)

(***************************************************************************)
(* DELETE /api/comments: the fixed-point rescan.                           *)
(***************************************************************************)
\* one movieComments.forEach pass: adds c.id when c.parentId is in the set
RECURSIVE ScanPass(_, _)
ScanPass(movieComments, commentsToDelete) ==
    IF movieComments = <<>> THEN commentsToDelete
    ELSE LET c == Head(movieComments)
         IN  ScanPass(Tail(movieComments),
                      IF ~Falsy(c.parentId) /\ c.parentId \in commentsToDelete
                      THEN commentsToDelete \cup {Str(c.id)}
                      ELSE commentsToDelete)

\* the test that takes a set of the same size for a changed one
ChangedOrSame(currentSize, size) == size >= currentSize

\* if (commentsToDelete.size > currentSize) changed = true
Changed(currentSize, size) == size > currentSize

\* while (changed) { ... }: passes until the size stops growing
RECURSIVE Rescan(_, _)
Rescan(movieComments, commentsToDelete) ==
    LET after == ScanPass(movieComments, commentsToDelete)
    IN  IF Changed(Cardinality(commentsToDelete), Cardinality(after))
        THEN Rescan(movieComments, after)
        ELSE after

\* new Set([commentId]) and one pass over the list, without the loop
CommentsToDeleteOnePass(movieComments, commentId) == ScanPass(movieComments, {commentId})

\* new Set([commentId]) and the loop
CommentsToDelete(movieComments, commentId) == Rescan(movieComments, {commentId})

\* the filter that also detaches the survivors from their parents
SurvivorsDetached(movieComments, commentsToDelete) ==
    LET kept == SelectSeq(movieComments, LAMBDA c : Str(c.id) \notin commentsToDelete)
    IN  [i \in 1..Len(kept) |-> [kept[i] EXCEPT !.parentId = Null]]

\* movieComments.filter(c => !commentsToDelete.has(c.id))
Survivors(movieComments, commentsToDelete) ==
    SelectSeq(movieComments, LAMBDA c : Str(c.id) \notin commentsToDelete)

(***************************************************************************)
(* The observation of a request: the handler that ran and its request      *)
(* fields, the status and the body it answered, and the document and the   *)
(* rate limiter's map as the request found them.                           *)
(***************************************************************************)
Answer(op, status, movieId, commentId, commentData, session, body) ==
    [op |-> op, status |-> status, movieId |-> movieId, commentId |-> commentId,
     commentData |-> commentData, session |-> session, body |-> body,
     before |-> db, requestsBefore |-> userRequests, at |-> now]

NoRequest ==
    [op |-> "", status |-> 0, movieId |-> Undefined, commentId |-> Undefined,
     commentData |-> Undefined, session |-> Undefined, body |-> <<>>,
     before |-> EmptyDb, requestsBefore |-> [u \in {} |-> <<>>], at |-> 0]

(***************************************************************************)
(* POST /api/comments: add a comment.  commentData is undefined or an      *)
(* object [parentId, comment, rating]; a TypeError thrown by the handler   *)
(* is answered 500 by express before anything is written.                  *)
(***************************************************************************)
\* the new comment with the payload's rating kept on replies: rating: commentData.rating
NewCommentKeepsRating(commentData, user) ==
    [id |-> CommentId(now),
     parentId |-> IF Falsy(commentData.parentId) THEN Null ELSE commentData.parentId,
     reviewer |-> user.name,
     userId |-> user.id,
     comment |-> sanitize(commentData.comment.c),
     date |-> IsoDate(now),
     rating |-> commentData.rating]

NewComment(commentData, user) ==
    [id |-> CommentId(now),
     parentId |-> IF Falsy(commentData.parentId) THEN Null ELSE commentData.parentId,
     reviewer |-> user.name,
     userId |-> user.id,
     comment |-> sanitize(commentData.comment.c),
     date |-> IsoDate(now),
     rating |-> IF Falsy(commentData.parentId) THEN commentData.rating ELSE Undefined]

\* the document with the list replaced: db.comments[movieId] = [newComment]
PostDocumentReplacesList(read, movieId, newComment) ==
    [read EXCEPT !.comments = SetKey(read.comments, Key(movieId), <<newComment>>)]

\* db after db.comments[movieId].push(newComment), on the document read
PostDocument(read, movieId, newComment) ==
    [read EXCEPT !.comments =
        SetKey(read.comments, Key(movieId),
               Append(GetOrEmpty(read.comments, Key(movieId)), newComment))]

\* POST that takes the author from the session when the user is not stored
RouterPostTrustsSession(movieId, commentData, session) ==
    IF ~validateSession(session, now)
    THEN /\ last' = Answer("POST", 401, movieId, Undefined, commentData, session, <<>>)
         /\ UNCHANGED <<db, disk>>
    ELSE IF commentData.t # "object" \/ commentData.comment.t # "string"
    THEN /\ last' = Answer("POST", 500, movieId, Undefined, commentData, session, <<>>)
         /\ UNCHANGED <<db, disk>>
    ELSE IF atomicWriteThrows
    THEN /\ last' = Answer("POST", 500, movieId, Undefined, commentData, session, <<>>)
         /\ UNCHANGED <<db, disk>>
    ELSE LET user == IF FindUser(session.user.id.s) = {}
                     THEN [id |-> session.user.id.s, name |-> "", role |-> "user"]
                     ELSE CHOOSE u \in FindUser(session.user.id.s) : TRUE
             read == readCommentsDb
             newComment == NewComment(commentData, user)
         IN  /\ writeCommentsDb(PostDocument(read, movieId, newComment))
             /\ last' = Answer("POST", 201, movieId, Undefined, commentData, session,
                               <<newComment>>)

RouterPost(movieId, commentData, session) ==
    IF ~validateSession(session, now)
    THEN /\ last' = Answer("POST", 401, movieId, Undefined, commentData, session, <<>>)
         /\ UNCHANGED <<db, disk>>
    ELSE IF FindUser(session.user.id.s) = {}
    THEN /\ last' = Answer("POST", 404, movieId, Undefined, commentData, session, <<>>)
         /\ UNCHANGED <<db, disk>>
    ELSE IF commentData.t # "object" \/ commentData.comment.t # "string"
    THEN /\ last' = Answer("POST", 500, movieId, Undefined, commentData, session, <<>>)
         /\ UNCHANGED <<db, disk>>
    ELSE IF atomicWriteThrows
    THEN /\ last' = Answer("POST", 500, movieId, Undefined, commentData, session, <<>>)
         /\ UNCHANGED <<db, disk>>
    ELSE LET user == CHOOSE u \in FindUser(session.user.id.s) : TRUE
             read == readCommentsDb
             newComment == NewComment(commentData, user)
         IN  /\ writeCommentsDb(PostDocument(read, movieId, newComment))
             /\ last' = Answer("POST", 201, movieId, Undefined, commentData, session,
                               <<newComment>>)

(***************************************************************************)
(* PUT /api/comments: toggle the upvote of session.user.id on commentId.   *)
(***************************************************************************)
\* the toggle whose filter keeps the user: filter(id => id === session.user.id)
ToggleFilterKeepsUser(upvoteUserIds, uid) ==
    IF \E i \in 1..Len(upvoteUserIds) : upvoteUserIds[i] = uid
    THEN SelectSeq(upvoteUserIds, LAMBDA id : id = uid)
    ELSE Append(upvoteUserIds, uid)

\* the toggle whose membership test looks at the first voter only
ToggleIncludesFirstOnly(upvoteUserIds, uid) ==
    IF upvoteUserIds # <<>> /\ upvoteUserIds[1] = uid
    THEN SelectSeq(upvoteUserIds, LAMBDA id : id # uid)
    ELSE Append(upvoteUserIds, uid)

\* the toggle without the includes test: always push
TogglePushOnly(upvoteUserIds, uid) ==
    Append(upvoteUserIds, uid)

\* upvoteUserIds after the includes / filter / push
Toggle(upvoteUserIds, uid) ==
    IF \E i \in 1..Len(upvoteUserIds) : upvoteUserIds[i] = uid
    THEN SelectSeq(upvoteUserIds, LAMBDA id : id # uid)
    ELSE Append(upvoteUserIds, uid)

\* db after db.upvotes = { [commentId]: upvoteUserIds }: the ledger replaced
PutDocumentReplacesLedger(read, commentId, upvoteUserIds) ==
    [read EXCEPT !.upvotes = SetKey(EmptyDb.upvotes, Key(commentId), upvoteUserIds)]

\* db after db.upvotes[commentId] = upvoteUserIds, on the document read
PutDocument(read, commentId, upvoteUserIds) ==
    [read EXCEPT !.upvotes = SetKey(read.upvotes, Key(commentId), upvoteUserIds)]

RouterPut(commentId, session) ==
    IF ~validateSession(session, now)
    THEN /\ last' = Answer("PUT", 401, Undefined, commentId, Undefined, session, <<>>)
         /\ UNCHANGED <<db, disk>>
    ELSE IF atomicWriteThrows
    THEN /\ last' = Answer("PUT", 500, Undefined, commentId, Undefined, session, <<>>)
         /\ UNCHANGED <<db, disk>>
    ELSE LET read == readCommentsDb
             upvoteUserIds == Toggle(GetOrEmpty(read.upvotes, Key(commentId)),
                                     session.user.id.s)
         IN  /\ writeCommentsDb(PutDocument(read, commentId, upvoteUserIds))
             /\ last' = Answer("PUT", 200, Undefined, commentId, Undefined, session,
                               upvoteUserIds)

(***************************************************************************)
(* DELETE /api/comments: cascade delete, admin only.                       *)
(***************************************************************************)
\* the admin check without the role test: !user
NotAdminUnknownOnly(session) ==
    FindUser(session.user.id.s) = {}

\* the admin check on the role the session carries: session.user.role !== 'admin'
NotAdminBySessionRole(session) ==
    FindUser(session.user.id.s) = {} \/ session.user.role # "admin"

\* !user || user.role !== 'admin' on getUsers().find(...)
NotAdmin(session) ==
    \A u \in FindUser(session.user.id.s) : u.role # "admin"

\* the keys of commentsToDelete.forEach(id => delete db.upvotes[id])
UpvoteKeys(commentsToDelete) == {Key(v) : v \in commentsToDelete}

\* db after a delete that drops the votes of the whole list of the movie
DeleteDocumentMovieVotes(read, movieId, commentId) ==
    LET movieComments == GetOrEmpty(read.comments, Key(movieId))
        commentsToDelete == CommentsToDelete(movieComments, commentId)
    IN  [comments |-> SetKey(read.comments, Key(movieId),
                             Survivors(movieComments, commentsToDelete)),
         upvotes |-> Without(read.upvotes,
                             UpvoteKeys(commentsToDelete)
                               \cup {movieComments[i].id : i \in 1..Len(movieComments)})]

\* db after the filter and the deletes of the ledger, on the document read
DeleteDocument(read, movieId, commentId) ==
    LET movieComments == GetOrEmpty(read.comments, Key(movieId))
        commentsToDelete == CommentsToDelete(movieComments, commentId)
    IN  [comments |-> SetKey(read.comments, Key(movieId),
                             Survivors(movieComments, commentsToDelete)),
         upvotes |-> Without(read.upvotes, UpvoteKeys(commentsToDelete))]

\* DELETE that deletes the votes of commentId alone: delete db.upvotes[commentId]
RouterDeleteTargetVotesOnly(movieId, commentId, session) ==
    IF ~validateSession(session, now)
    THEN /\ last' = Answer("DELETE", 401, movieId, commentId, Undefined, session, <<>>)
         /\ UNCHANGED <<db, disk>>
    ELSE IF NotAdmin(session)
    THEN /\ last' = Answer("DELETE", 403, movieId, commentId, Undefined, session, <<>>)
         /\ UNCHANGED <<db, disk>>
    ELSE IF atomicWriteThrows
    THEN /\ last' = Answer("DELETE", 500, movieId, commentId, Undefined, session, <<>>)
         /\ UNCHANGED <<db, disk>>
    ELSE LET read == readCommentsDb
             movieComments == GetOrEmpty(read.comments, Key(movieId))
             commentsToDelete == CommentsToDelete(movieComments, commentId)
         IN  /\ writeCommentsDb(
                    [comments |->
                        SetKey(read.comments, Key(movieId),
                               Survivors(movieComments, commentsToDelete)),
                     upvotes |-> Without(read.upvotes, {Key(commentId)})])
             /\ last' = Answer("DELETE", 200, movieId, commentId, Undefined, session, <<>>)

RouterDelete(movieId, commentId, session) ==
    IF ~validateSession(session, now)
    THEN /\ last' = Answer("DELETE", 401, movieId, commentId, Undefined, session, <<>>)
         /\ UNCHANGED <<db, disk>>
    ELSE IF NotAdmin(session)
    THEN /\ last' = Answer("DELETE", 403, movieId, commentId, Undefined, session, <<>>)
         /\ UNCHANGED <<db, disk>>
    ELSE IF atomicWriteThrows
    THEN /\ last' = Answer("DELETE", 500, movieId, commentId, Undefined, session, <<>>)
         /\ UNCHANGED <<db, disk>>
    ELSE /\ writeCommentsDb(DeleteDocument(readCommentsDb, movieId, commentId))
         /\ last' = Answer("DELETE", 200, movieId, commentId, Undefined, session, <<>>)

(***************************************************************************)
(* GET /api/comments: the thread of one movie.  A comment object of        *)
(* movieComments is named by its position in the list; the response nests  *)
(* the objects of replies[p] under the object at position p.               *)
(***************************************************************************)
\* the positions 1..n, in order
Positions(n) == [i \in 1..n |-> i]

\* commentMap after the first forEach: each id names the last comment set for it
CommentMap(movieComments) ==
    [k \in {movieComments[i].id : i \in 1..Len(movieComments)} |->
        CHOOSE i \in 1..Len(movieComments) :
            /\ movieComments[i].id = k
            /\ \A j \in 1..Len(movieComments) : movieComments[j].id = k => j <= i]

\* c.parentId && commentMap.has(c.parentId)
Resolves(c, commentMap) ==
    /\ ~Falsy(c.parentId)
    /\ c.parentId.t = "string"
    /\ c.parentId.s \in DOMAIN commentMap

\* c.replies of every comment after the second forEach
ReplyLists(movieComments, commentMap) ==
    [p \in 1..Len(movieComments) |->
        SelectSeq(Positions(Len(movieComments)),
                  LAMBDA i : /\ Resolves(movieComments[i], commentMap)
                             /\ commentMap[movieComments[i].parentId.s] = p)]

\* the roots without the orphans: the comments whose parentId is null
RootCommentsNullParentOnly(movieComments, commentMap) ==
    SelectSeq(Positions(Len(movieComments)),
              LAMBDA i : Falsy(movieComments[i].parentId))

\* rootComments after the second forEach
RootComments(movieComments, commentMap) ==
    SelectSeq(Positions(Len(movieComments)),
              LAMBDA i : ~Resolves(movieComments[i], commentMap))

\* the sort with the comparator a.date - b.date: oldest first
RECURSIVE InsertByDateOldestFirst(_, _, _)
InsertByDateOldestFirst(sorted, x, movieComments) ==
    IF sorted = <<>> THEN <<x>>
    ELSE IF GetTime(movieComments[Head(sorted)].date) - GetTime(movieComments[x].date) <= 0
    THEN <<Head(sorted)>> \o InsertByDateOldestFirst(Tail(sorted), x, movieComments)
    ELSE <<x>> \o sorted

\* sort((a, b) => new Date(b.date).getTime() - new Date(a.date).getTime()):
\* the sort is stable, x goes behind every comment that is not older than it
RECURSIVE InsertByDate(_, _, _)
InsertByDate(sorted, x, movieComments) ==
    IF sorted = <<>> THEN <<x>>
    ELSE IF GetTime(movieComments[x].date) - GetTime(movieComments[Head(sorted)].date) <= 0
    THEN <<Head(sorted)>> \o InsertByDate(Tail(sorted), x, movieComments)
    ELSE <<x>> \o sorted

RECURSIVE SortByDate(_, _, _)
SortByDate(sorted, rest, movieComments) ==
    IF rest = <<>> THEN sorted
    ELSE SortByDate(InsertByDate(sorted, Head(rest), movieComments), Tail(rest),
                    movieComments)

\* the ledger returned whole: Object.fromEntries(Object.entries(db.upvotes))
UpvotesUnfiltered(upvotes, commentMap) ==
    upvotes

\* Object.fromEntries(Object.entries(db.upvotes).filter(([id]) => commentMap.has(id)))
UpvotesForMovie(upvotes, commentMap) ==
    [k \in DOMAIN upvotes \cap DOMAIN commentMap |-> upvotes[k]]

\* GET that saves the document it has attached the replies to: a
\* writeCommentsDb(db) before the response
RouterGetWritesBack(movieId) ==
    IF Falsy(movieId)
    THEN /\ last' = Answer("GET", 400, movieId, Undefined, Undefined, Undefined, <<>>)
         /\ UNCHANGED <<db, disk>>
    ELSE LET read == readCommentsDb
             movieComments == GetOrEmpty(read.comments, Key(movieId))
             commentMap == CommentMap(movieComments)
             rootComments == RootComments(movieComments, commentMap)
             replies == ReplyLists(movieComments, commentMap)
             threaded == [i \in 1..Len(movieComments) |->
                             [id |-> movieComments[i].id,
                              parentId |-> movieComments[i].parentId,
                              reviewer |-> movieComments[i].reviewer,
                              userId |-> movieComments[i].userId,
                              comment |-> movieComments[i].comment,
                              date |-> movieComments[i].date,
                              rating |-> movieComments[i].rating,
                              replies |-> replies[i]]]
         IN  /\ last' = Answer("GET", 200, movieId, Undefined, Undefined, Undefined,
                               [comments |-> SortByDate(<<>>, rootComments, movieComments),
                                replies |-> replies,
                                upvotes |-> UpvotesForMovie(read.upvotes, commentMap)])
             /\ writeCommentsDb(IF Key(movieId) \in DOMAIN read.comments
                                THEN [read EXCEPT !.comments[Key(movieId)] = threaded]
                                ELSE read)

RouterGet(movieId) ==
    IF Falsy(movieId)
    THEN /\ last' = Answer("GET", 400, movieId, Undefined, Undefined, Undefined, <<>>)
         /\ UNCHANGED <<db, disk>>
    ELSE LET read == readCommentsDb
             movieComments == GetOrEmpty(read.comments, Key(movieId))
             commentMap == CommentMap(movieComments)
             rootComments == RootComments(movieComments, commentMap)
         IN  /\ last' = Answer("GET", 200, movieId, Undefined, Undefined, Undefined,
                               [comments |-> SortByDate(<<>>, rootComments, movieComments),
                                replies |-> ReplyLists(movieComments, commentMap),
                                upvotes |-> UpvotesForMovie(read.upvotes, commentMap)])
             /\ UNCHANGED <<db, disk>>

(***************************************************************************)
(* The rate limiter of server.ts and the two endpoints that consult it.    *)
(***************************************************************************)
RATE_LIMIT_WINDOW_MS == 60 * 1000
MAX_REQUESTS_PER_WINDOW == 20

\* the filter with now - t <= RATE_LIMIT_WINDOW_MS
RecentTimestampsInclusive(timestamps, clock) ==
    SelectSeq(timestamps, LAMBDA t : clock - t <= RATE_LIMIT_WINDOW_MS)

\* timestamps.filter(t => now - t < RATE_LIMIT_WINDOW_MS)
RecentTimestamps(timestamps, clock) ==
    SelectSeq(timestamps, LAMBDA t : clock - t < RATE_LIMIT_WINDOW_MS)

\* the ceiling test with recentTimestamps.length > MAX_REQUESTS_PER_WINDOW
LimitedAboveCeiling(userId) ==
    Len(SelectSeq(GetOrEmpty(userRequests, userId),
                  LAMBDA t : now - t < RATE_LIMIT_WINDOW_MS)) > MAX_REQUESTS_PER_WINDOW

\* checkRateLimit(userId).limited
Limited(userId) ==
    Len(RecentTimestamps(GetOrEmpty(userRequests, userId), now)) >= MAX_REQUESTS_PER_WINDOW

\* checkRateLimit(userId): the map after the call
checkRateLimit(userId) ==
    IF Limited(userId) THEN userRequests
    ELSE SetKey(userRequests, userId,
                Append(RecentTimestamps(GetOrEmpty(userRequests, userId), now), now))

\* the guard that consults the rate limiter first: a session that names a
\* user is counted, then validated
GuardedLimiterFirst(op, session) ==
    IF \/ Falsy(session) \/ TypeOf(session) # "object"
       \/ Falsy(session.user) \/ TypeOf(session.user) # "object"
       \/ TypeOf(session.user.id) # "string"
    THEN /\ last' = Answer(op, 401, Undefined, Undefined, Undefined, session, <<>>)
         /\ UNCHANGED userRequests
    ELSE IF Limited(session.user.id.s)
    THEN /\ last' = Answer(op, 429, Undefined, Undefined, Undefined, session, <<>>)
         /\ UNCHANGED userRequests
    ELSE /\ last' = Answer(op, IF authValidateSession(session, now) THEN 200 ELSE 401,
                           Undefined, Undefined, Undefined, session, <<>>)
         /\ userRequests' = checkRateLimit(session.user.id.s)

\* app.post('/api/youtube-downloader') and app.post('/api/azure-ai') up to
\* the rate-limit check: 401, then 429, then the request proceeds
Guarded(op, session) ==
    IF ~authValidateSession(session, now)
    THEN /\ last' = Answer(op, 401, Undefined, Undefined, Undefined, session, <<>>)
         /\ UNCHANGED userRequests
    ELSE /\ last' = Answer(op, IF Limited(session.user.id.s) THEN 429 ELSE 200,
                           Undefined, Undefined, Undefined, session, <<>>)
         /\ userRequests' = checkRateLimit(session.user.id.s)

YoutubeDownloader(session) == Guarded("YOUTUBE", session)
AzureAi(session) == Guarded("AZURE", session)

(***************************************************************************)
(* The clock: Date.now() moves to a later instant of a set of instants.    *)
(***************************************************************************)
Tick(instants) ==
    /\ last = NoRequest
    /\ \E t \in instants : t > now /\ now' = t
    /\ UNCHANGED <<db, userRequests, last, checks, mutations, probe, history, loop, disk, store>>

(***************************************************************************)
(* The history of the requests, kept for the claims on the vote ledger.    *)
(***************************************************************************)
\* no toggle was the request before
NoPrevious == [op |-> "", commentId |-> Undefined, userId |-> "", voters |-> <<>>]

\* what is kept of an answered request: of a toggle, the comment id, the user
\* and the voters the toggle found
PreviousOf(answer) ==
    IF answer.op = "PUT" /\ answer.status = 200
    THEN [op |-> "PUT", commentId |-> answer.commentId,
          userId |-> answer.session.user.id.s,
          voters |-> GetOrEmpty(answer.before.upvotes, Key(answer.commentId))]
    ELSE NoPrevious

\* some comment of the document has the id k
Exists(doc, k) ==
    \E m \in DOMAIN doc.comments :
        \E i \in 1..Len(doc.comments[m]) : doc.comments[m][i].id = k

\* the votes <<comment id, user>> recorded while no comment had the id and
\* not withdrawn since, after the request answered by `answer` left `doc`
PhantomAfter(phantom, answer, doc) ==
    IF answer.op = "PUT" /\ answer.status = 200
    THEN LET k == Key(answer.commentId)
             u == answer.session.user.id.s
         IN  IF \E i \in 1..Len(answer.body) : answer.body[i] = u
             THEN (IF Exists(answer.before, k) THEN phantom ELSE phantom \cup {<<k, u>>})
             ELSE phantom \ {<<k, u>>}
    ELSE IF answer.op = "DELETE" /\ answer.status = 200
    THEN {v \in phantom : v[1] \in DOMAIN doc.upvotes}
    ELSE phantom

(***************************************************************************)
(* JsonFileStorage (src/unnamed/part_001): getComments and saveComments on *)
(* data/comments.json.  writeJsonFile is synchronous, so no other code of  *)
(* the process runs between its steps; a crash of the process and a fault  *)
(* of the disk can fall between any two of them.                           *)
(***************************************************************************)
\* the write in place: const tempPath = filePath
tempPathInPlace(filePath) == filePath

\* const tempPath = `${filePath}.tmp`
tempPath(filePath) == filePath \o ".tmp"

\* fs.renameSync(from, to): to holds what from held, from is gone
renameSync(from, to) ==
    IF from = to THEN UNCHANGED <<db, disk>>
    ELSE /\ disk' = [disk EXCEPT !.files[to] = Kept(to, FileAt(from)),
                                 !.files[from] = Kept(from, NoFile)]
         /\ db' = IF to = COMMENTS_PATH THEN readJsonFile(FileAt(from), EmptyDb)
                  ELSE db

\* the default of getComments: []
JsArray == [t |-> "array", items |-> <<>>]

\* a readJsonFile that takes the default when the file exists
storageReadJsonFileDefaultOnly(file, defaultValue) == defaultValue

\* JsonFileStorage.readJsonFile(filename, defaultValue)
storageReadJsonFile(file, defaultValue) ==
    IF ~file.exists THEN defaultValue
    ELSE IF JsonParse(file).ok THEN JsonParse(file).value
    ELSE defaultValue

\* getComments(): readJsonFile('comments.json', [])
getComments == storageReadJsonFile(FileAt(COMMENTS_PATH), JsArray)

\* a catch block that logs the error and returns: the promise resolves
writeJsonFileCatchSwallows == "resolved"

\* the catch block of writeJsonFile: console.error, then throw error
writeJsonFileCatch == "rejected"

\* no read made, and no call of the storage service made: nothing to save,
\* nothing returned
NoRead == [by |-> "", value |-> <<>>]
Idle == [pc |-> "idle", data |-> <<>>, old |-> <<>>, n |-> 0, result |-> "",
         got |-> NoRead]

(***************************************************************************)
(* Request inputs.                                                         *)
(***************************************************************************)
\* an expiry later than every instant of every specification
Forever == (MaxRateTick + 2) * RATE_LIMIT_WINDOW_MS + MaxClock + MaxTreeClock

AdminSession == SessionObj(Str("tok"), UserObj(Str("u1"), "admin"), Num(Forever))
UserSession == SessionObj(Str("tok"), UserObj(Str("u2"), "user"), Num(Forever))
\* a session that claims the admin role for a plain user, and for an unknown user
ForgedSession == SessionObj(Str("tok"), UserObj(Str("u2"), "admin"), Num(Forever))
GhostSession == SessionObj(Str("tok"), UserObj(Str("u3"), "admin"), Num(Forever))
\* an admin session that expires at instant 2
ExpiringSession == SessionObj(Str("tok"), UserObj(Str("u1"), "admin"), Num(2))
NoTokenSession == SessionObj(Str(""), UserObj(Str("u1"), "admin"), Num(Forever))

Sessions ==
    {AdminSession, UserSession, ForgedSession, GhostSession, ExpiringSession,
     NoTokenSession, Null}
PostSessions == {AdminSession, GhostSession, Null}
PutSessions == {UserSession, Null}

MovieIds == {Str("m1"), Str("m2")}
\* the ids PUT votes on: the first comment's and the second's
UpvoteIds == {Str(CommentId(1)), Str(CommentId(2))}
CommentIds(maxClock) == {Str(CommentId(t)) : t \in 1..maxClock}

CommentData(parentId, chars, rating) ==
    [t |-> "object", parentId |-> parentId,
     comment |-> [t |-> "string", c |-> chars], rating |-> rating]

\* the POST requests: every reply shape in movie m1, roots and replies to the
\* first comment in movie m2, and a request without commentData
PostInputs(maxClock) ==
    {<<Str("m1"), CommentData(p, <<"o", "k">>, Num(5))>> :
        p \in CommentIds(maxClock) \cup {Undefined}}
      \cup {<<Str("m2"), CommentData(p, <<"o", "k">>, Num(5))>> :
                p \in {Undefined, Str(CommentId(1))}}
      \cup {<<Str("m1"), Undefined>>}

(***************************************************************************)
(* The steps of the comment store: one request of the router, the          *)
(* response leaving, the clock.                                            *)
(***************************************************************************)
Init ==
    /\ db = EmptyDb
    /\ now = 1
    /\ userRequests = [u \in {} |-> <<>>]
    /\ last = NoRequest
    /\ checks = [u \in {} |-> <<>>]
    /\ mutations = [u \in {} |-> <<>>]
    /\ probe = [session |-> Null, asked |-> FALSE, at |-> 0,
                local |-> FALSE, shared |-> FALSE]
    /\ history = [previous |-> NoPrevious, phantom |-> {}, serial |-> EmptyDb]
    /\ loop = <<>>
    /\ disk = [files |-> [p \in {COMMENTS_PATH, tempPath(COMMENTS_PATH)} |->
                             Kept(p, NoFile)],
               failing |-> FALSE]
    /\ store = Idle

\* the response has been sent: the next request finds no request in flight
Settle ==
    /\ last # NoRequest
    /\ last' = NoRequest
    /\ UNCHANGED <<db, now, userRequests, checks, mutations, probe, history, loop, disk, store>>

Post(maxComments, inputs, sessions) ==
    /\ last = NoRequest
    /\ Stored < maxComments
    /\ \E i \in inputs, s \in sessions : RouterPost(i[1], i[2], s)
    /\ UNCHANGED <<now, userRequests>>

Upvote(commentIds, sessions) ==
    /\ last = NoRequest
    /\ \E c \in commentIds, s \in sessions : RouterPut(c, s)
    /\ UNCHANGED <<now, userRequests>>

Delete(movieIds, commentIds, sessions) ==
    /\ last = NoRequest
    /\ \E m \in movieIds, c \in commentIds, s \in sessions : RouterDelete(m, c, s)
    /\ UNCHANGED <<now, userRequests>>

Get(movieIds) ==
    /\ last = NoRequest
    /\ \E m \in movieIds : RouterGet(m)
    /\ UNCHANGED <<now, userRequests>>

(***************************************************************************)
(* Spec: the comment store with its vote ledger.                           *)
(***************************************************************************)
AddComment ==
    /\ Post(MaxComments, PostInputs(MaxClock), PostSessions)
    /\ UNCHANGED <<checks, mutations, probe, history, loop, store>>

ToggleUpvote ==
    /\ Upvote(UpvoteIds, PutSessions)
    /\ UNCHANGED <<checks, mutations, probe, history, loop, store>>

DeleteComment ==
    /\ Delete(MovieIds, CommentIds(MaxClock), Sessions)
    /\ UNCHANGED <<checks, mutations, probe, history, loop, store>>

Next ==
    \/ AddComment
    \/ ToggleUpvote
    \/ DeleteComment
    \/ Settle
    \/ Tick(1..MaxClock)

Spec == Init /\ [][Next]_vars

(***************************************************************************)
(* SpecTree: the comment store without votes, with deeper reply trees and  *)
(* the threads read.                                                       *)
(***************************************************************************)
TreeAddComment ==
    /\ Post(MaxTreeComments, PostInputs(MaxTreeClock), {AdminSession})
    /\ UNCHANGED <<checks, mutations, probe, history, loop, store>>

TreeDeleteComment ==
    /\ Delete(MovieIds, CommentIds(MaxTreeClock), {AdminSession})
    /\ UNCHANGED <<checks, mutations, probe, history, loop, store>>

TreeGetComments ==
    /\ Get(MovieIds)
    /\ UNCHANGED <<checks, mutations, probe, history, loop, store>>

NextTree ==
    \/ TreeAddComment
    \/ TreeDeleteComment
    \/ TreeGetComments
    \/ Settle
    \/ Tick(1..MaxTreeClock)

SpecTree == Init /\ [][NextTree]_vars

(***************************************************************************)
(* SpecVotes: the vote ledger under toggles by two users, with comments    *)
(* added and deleted in two movies and the threads read.                   *)
(***************************************************************************)
VoteSessions == {AdminSession, UserSession}

VotePostInputs ==
    {<<Str("m1"), CommentData(p, <<"o", "k">>, Num(5))>> :
        p \in {Undefined, Str(CommentId(1))}}
      \cup {<<Str("m2"), CommentData(Undefined, <<"o", "k">>, Num(5))>>}

ObserveVotes ==
    history' = [history EXCEPT !.phantom = PhantomAfter(history.phantom, last', db')]

VoteAddComment ==
    /\ Post(MaxVoteComments, VotePostInputs, {AdminSession})
    /\ ObserveVotes
    /\ UNCHANGED <<checks, mutations, probe, loop, store>>

VoteToggleUpvote ==
    /\ Upvote(UpvoteIds, VoteSessions)
    /\ ObserveVotes
    /\ UNCHANGED <<checks, mutations, probe, loop, store>>

VoteDeleteComment ==
    /\ Delete(MovieIds, CommentIds(MaxVoteClock), {AdminSession})
    /\ ObserveVotes
    /\ UNCHANGED <<checks, mutations, probe, loop, store>>

VoteGetComments ==
    /\ Get(MovieIds \cup {Undefined})
    /\ UNCHANGED <<checks, mutations, probe, history, loop, store>>

NextVotes ==
    \/ VoteAddComment
    \/ VoteToggleUpvote
    \/ VoteDeleteComment
    \/ VoteGetComments
    \/ Settle
    \/ Tick(1..MaxVoteClock)

SpecVotes == Init /\ [][NextVotes]_vars

(***************************************************************************)
(* SpecToggle: toggles alone, by three users (the router does not look the *)
(* voter up in the users collection), from the empty ledger.  The history  *)
(* keeps the toggle answered before the last request.                      *)
(***************************************************************************)
ToggleSessions == {AdminSession, UserSession, GhostSession}

\* the response has been sent and the request is remembered
Remember ==
    /\ last # NoRequest
    /\ last' = NoRequest
    /\ history' = [history EXCEPT !.previous = PreviousOf(last)]
    /\ UNCHANGED <<db, now, userRequests, checks, mutations, probe, loop, disk, store>>

ToggleAlone ==
    /\ Upvote(UpvoteIds, ToggleSessions)
    /\ UNCHANGED <<checks, mutations, probe, history, loop, store>>

NextToggle ==
    \/ ToggleAlone
    \/ Remember

SpecToggle == Init /\ [][NextToggle]_vars

(***************************************************************************)
(* SpecConcurrent: mutating requests in flight at the same time.  A        *)
(* request is received (its body parsed), its handler is entered (the      *)
(* session checked and the document read into the handler's frame), and    *)
(* the handler writes (the change applied to the document read, the file   *)
(* written, the response sent).  The handlers are plain functions: from    *)
(* readCommentsDb() to writeCommentsDb() they make blocking calls only, so *)
(* the event loop enters no handler while another is between the two.      *)
(***************************************************************************)
Request(op, movieId, commentId, commentData, session) ==
    [op |-> op, movieId |-> movieId, commentId |-> commentId,
     commentData |-> commentData, session |-> session]

ConcurrentRequests ==
    {Request("POST", Str("m1"), Undefined, CommentData(Undefined, <<"o", "k">>, Num(5)),
             AdminSession),
     Request("PUT", Undefined, Str(CommentId(1)), Undefined, AdminSession),
     Request("PUT", Undefined, Str(CommentId(1)), Undefined, UserSession),
     Request("DELETE", Str("m1"), Str(CommentId(1)), Undefined, AdminSession),
     Request("DELETE", Str("m1"), Str(CommentId(1)), Undefined, UserSession)}

\* the handler returns before it reads the document: 401, 404, 403
Refused(req) ==
    \/ ~validateSession(req.session, now)
    \/ req.op = "POST" /\ FindUser(req.session.user.id.s) = {}
    \/ req.op = "DELETE" /\ NotAdmin(req.session)

\* the document the handler writes, from the document it read
Written(req, read) ==
    IF req.op = "POST"
    THEN PostDocument(read, req.movieId,
                      NewComment(req.commentData,
                                 CHOOSE u \in FindUser(req.session.user.id.s) : TRUE))
    ELSE IF req.op = "PUT"
    THEN PutDocument(read, req.commentId,
                     Toggle(GetOrEmpty(read.upvotes, Key(req.commentId)),
                            req.session.user.id.s))
    ELSE DeleteDocument(read, req.movieId, req.commentId)

\* a handler that yields between its read and its write (an awaited write):
\* the event loop enters request i whatever the other handlers are doing
CanRunWhileAnotherWaits(i) ==
    loop[i].pc = "received"

\* the event loop can enter the handler of request i: no handler is between
\* its readCommentsDb() and its writeCommentsDb()
CanRun(i) ==
    /\ loop[i].pc = "received"
    /\ \A j \in 1..Len(loop) : loop[j].pc # "read"

Receive ==
    /\ Len(loop) < MaxInFlight
    /\ \E req \in ConcurrentRequests :
          loop' = Append(loop, [req |-> req, pc |-> "received", read |-> EmptyDb])
    /\ UNCHANGED <<db, now, userRequests, last, checks, mutations, probe, history, disk, store>>

Enter ==
    /\ \E i \in 1..Len(loop) :
          /\ CanRun(i)
          /\ loop' = [loop EXCEPT ![i] =
                         IF Refused(loop[i].req) THEN [@ EXCEPT !.pc = "done"]
                         ELSE [@ EXCEPT !.pc = "read", !.read = readCommentsDb]]
    /\ UNCHANGED <<db, now, userRequests, last, checks, mutations, probe, history, disk, store>>

Write ==
    /\ \E i \in 1..Len(loop) :
          /\ loop[i].pc = "read"
          /\ writeCommentsDb(Written(loop[i].req, loop[i].read))
          /\ history' = [history EXCEPT !.serial = Written(loop[i].req, history.serial)]
          /\ loop' = [loop EXCEPT ![i].pc = "done"]
    /\ UNCHANGED <<now, userRequests, last, checks, mutations, probe, store>>

NextConcurrent ==
    \/ Receive
    \/ Enter
    \/ Write
    \/ Tick(1..MaxClock)

SpecConcurrent == Init /\ [][NextConcurrent]_vars

(***************************************************************************)
(* SpecPayload: the request fields.  One comment at a time is stored, with *)
(* a body of angle brackets and letters, with and without movieId,         *)
(* commentData and its comment; the threads are read with and without      *)
(* movieId and the admin deletes.                                          *)
(***************************************************************************)
BodyChars == {"<", ">", "a"}
Bodies == UNION {[1..n -> BodyChars] : n \in 0..MaxBodyLen}

PayloadMovieIds == {Str("m1"), Undefined}

PayloadInputs ==
    {<<m, CommentData(Undefined, body, Num(5))>> : m \in PayloadMovieIds, body \in Bodies}
      \cup {<<Str("m1"), Undefined>>}
      \cup {<<Str("m1"), [t |-> "object", parentId |-> Undefined,
                          comment |-> Undefined, rating |-> Num(5)]>>}

PayloadAddComment ==
    /\ Post(1, PayloadInputs, {AdminSession})
    /\ UNCHANGED <<checks, mutations, probe, history, loop, store>>

PayloadDeleteComment ==
    /\ Delete(PayloadMovieIds, CommentIds(MaxClock), {AdminSession})
    /\ UNCHANGED <<checks, mutations, probe, history, loop, store>>

PayloadGetComments ==
    /\ Get(PayloadMovieIds \cup {Str("")})
    /\ UNCHANGED <<checks, mutations, probe, history, loop, store>>

NextPayload ==
    \/ PayloadAddComment
    \/ PayloadDeleteComment
    \/ PayloadGetComments
    \/ Settle
    \/ Tick(1..MaxClock)

SpecPayload == Init /\ [][NextPayload]_vars

(***************************************************************************)
(* SpecStore: the document on disk.  The router's requests and the calls   *)
(* of JsonFileStorage on the same file, step by step, with the crash of    *)
(* the process and the fault of the disk as the environment.               *)
(***************************************************************************)
StoreInputs ==
    {<<Str("m1"), CommentData(p, <<"o", "k">>, Num(5))>> :
        p \in {Undefined, Str(CommentId(1))}}

\* the documents handed to saveComments: the empty one, the one read, and
\* the one read with a vote added
SavedDocuments ==
    {EmptyDb, db, PutDocument(db, Str(CommentId(1)), <<"u2">>)}

StoreAddComment ==
    /\ store.pc = "idle"
    /\ Post(MaxStoreComments, StoreInputs, {AdminSession})
    /\ store' = Idle
    /\ UNCHANGED <<checks, mutations, probe, history, loop>>

StoreToggleUpvote ==
    /\ store.pc = "idle"
    /\ Upvote({Str(CommentId(1))}, {AdminSession})
    /\ store' = Idle
    /\ UNCHANGED <<checks, mutations, probe, history, loop>>

StoreDeleteComment ==
    /\ store.pc = "idle"
    /\ Delete({Str("m1")}, {Str(CommentId(1))}, {AdminSession})
    /\ store' = Idle
    /\ UNCHANGED <<checks, mutations, probe, history, loop>>

\* saveComments(comments) is called: writeJsonFile up to the writeFileSync
SaveComments ==
    /\ store.pc = "idle"
    /\ last = NoRequest
    /\ \E data \in SavedDocuments :
          store' = [Idle EXCEPT !.pc = "write", !.data = data,
                                !.old = FileAt(COMMENTS_PATH)]
    /\ UNCHANGED <<db, now, userRequests, last, checks, mutations, probe, history,
                   loop, disk>>

\* fs.writeFileSync(tempPath, JSON.stringify(data, null, 2)): the file is
\* truncated and the text goes to it chunk by chunk
WriteFileSync ==
    /\ store.pc = "write"
    /\ ~disk.failing
    /\ FilePut(tempPath(COMMENTS_PATH), JsonText(store.data, store.n + 1))
    /\ store' = [store EXCEPT !.n = store.n + 1,
                    !.pc = IF store.n + 1 = Len(JsonChunks) THEN "rename"
                           ELSE "write"]
    /\ UNCHANGED <<now, userRequests, last, checks, mutations, probe, history, loop>>

\* fs.renameSync(tempPath, filePath)
RenameSync ==
    /\ store.pc = "rename"
    /\ ~disk.failing
    /\ renameSync(tempPath(COMMENTS_PATH), COMMENTS_PATH)
    /\ store' = [store EXCEPT !.pc = "return"]
    /\ UNCHANGED <<now, userRequests, last, checks, mutations, probe, history, loop>>

\* writeJsonFile returns and the promise of saveComments resolves
Return ==
    /\ store.pc = "return"
    /\ store' = [store EXCEPT !.pc = "idle", !.result = "resolved"]
    /\ UNCHANGED <<db, now, userRequests, last, checks, mutations, probe, history,
                   loop, disk>>

\* writeFileSync or renameSync throws: the catch block of writeJsonFile
Throw ==
    /\ store.pc \in {"write", "rename"}
    /\ disk.failing
    /\ store' = [store EXCEPT !.pc = "idle", !.result = writeJsonFileCatch]
    /\ UNCHANGED <<db, now, userRequests, last, checks, mutations, probe, history,
                   loop, disk>>

\* the process dies inside writeJsonFile; the files stay as they are
Crash ==
    /\ store.pc # "idle"
    /\ store' = [store EXCEPT !.pc = "idle", !.result = "crashed"]
    /\ UNCHANGED <<db, now, userRequests, last, checks, mutations, probe, history,
                   loop, disk>>

\* the disk starts or stops failing writes
Fault ==
    /\ disk' = [disk EXCEPT !.failing = ~@]
    /\ UNCHANGED <<db, now, userRequests, last, checks, mutations, probe, history,
                   loop, store>>

\* getComments() of the storage service
GetComments ==
    /\ store.pc = "idle"
    /\ store.got.by = ""
    /\ store' = [store EXCEPT !.got = [by |-> "storage", value |-> getComments]]
    /\ UNCHANGED <<db, now, userRequests, last, checks, mutations, probe, history,
                   loop, disk>>

\* readCommentsDb() of the router
ReadCommentsDb ==
    /\ store.pc = "idle"
    /\ store.got.by = ""
    /\ store' = [store EXCEPT !.got = [by |-> "router", value |-> readJsonFile(FileAt(COMMENTS_PATH), EmptyDb)]]
    /\ UNCHANGED <<db, now, userRequests, last, checks, mutations, probe, history,
                   loop, disk>>

NextStore ==
    \/ StoreAddComment
    \/ StoreToggleUpvote
    \/ StoreDeleteComment
    \/ Settle
    \/ SaveComments
    \/ WriteFileSync
    \/ RenameSync
    \/ Return
    \/ Throw
    \/ Crash
    \/ Fault
    \/ GetComments
    \/ ReadCommentsDb

SpecStore == Init /\ [][NextStore]_vars

(***************************************************************************)
(* SpecRead: the readers on a file that was damaged or removed behind the  *)
(* server's back.                                                          *)
(***************************************************************************)
ReadAddComment ==
    /\ Post(MaxComments, StoreInputs, {AdminSession})
    /\ store' = Idle
    /\ UNCHANGED <<checks, mutations, probe, history, loop>>

ReadToggleUpvote ==
    /\ Upvote({Str(CommentId(1))}, {AdminSession})
    /\ store' = Idle
    /\ UNCHANGED <<checks, mutations, probe, history, loop>>

\* the file is cut to fewer chunks than a complete text has
Damage ==
    /\ last = NoRequest
    /\ disk.files[COMMENTS_PATH].exists
    /\ \E n \in 0..(Len(JsonChunks) - 1) :
          /\ n < disk.files[COMMENTS_PATH].len
          /\ FilePut(COMMENTS_PATH, JsonText(db, n))
    /\ store' = Idle
    /\ UNCHANGED <<now, userRequests, last, checks, mutations, probe, history, loop>>

\* the file is deleted
Remove ==
    /\ last = NoRequest
    /\ disk.files[COMMENTS_PATH].exists
    /\ FilePut(COMMENTS_PATH, NoFile)
    /\ store' = Idle
    /\ UNCHANGED <<now, userRequests, last, checks, mutations, probe, history, loop>>

NextRead ==
    \/ ReadAddComment
    \/ ReadToggleUpvote
    \/ Settle
    \/ Damage
    \/ Remove
    \/ GetComments
    \/ ReadCommentsDb

SpecRead == Init /\ [][NextRead]_vars

(***************************************************************************)
(* SpecCascade: the while loop of router.delete, pass by pass, on every    *)
(* comment list of up to MaxScanLen comments: ids and parentIds drawn from *)
(* three ids, so that chains in any order, cycles and comments that are    *)
(* their own parent occur, and a commentId that names a comment or none.   *)
(* The frame of the handler is loop[1].                                    *)
(***************************************************************************)
ScanIds == {"a", "b", "c"}
ScanComments == [id : ScanIds, parentId : {Null} \cup {Str(i) : i \in ScanIds}]
ScanLists == UNION {[1..n -> ScanComments] : n \in 0..MaxScanLen}
ScanTargets == {Str("a"), Str("x")}

\* the frame at `let changed = true`
ScanFrame(movieComments, commentId) ==
    [pc |-> "while", movieComments |-> movieComments, commentId |-> commentId,
     commentsToDelete |-> {commentId}, before |-> {commentId}, changed |-> TRUE,
     passes |-> 0]

InitCascade ==
    /\ db = EmptyDb
    /\ now = 1
    /\ userRequests = [u \in {} |-> <<>>]
    /\ last = NoRequest
    /\ checks = [u \in {} |-> <<>>]
    /\ mutations = [u \in {} |-> <<>>]
    /\ probe = [session |-> Null, asked |-> FALSE, at |-> 0,
                local |-> FALSE, shared |-> FALSE]
    /\ history = [previous |-> NoPrevious, phantom |-> {}, serial |-> EmptyDb]
    /\ \E movieComments \in ScanLists, commentId \in ScanTargets :
          loop = <<ScanFrame(movieComments, commentId)>>
    /\ disk = [files |-> [p \in {COMMENTS_PATH, tempPath(COMMENTS_PATH)} |->
                             Kept(p, NoFile)],
               failing |-> FALSE]
    /\ store = Idle

\* one turn of while (changed): the forEach pass and the size test
WhilePass ==
    /\ loop[1].pc = "while"
    /\ loop[1].changed
    /\ LET after == ScanPass(loop[1].movieComments, loop[1].commentsToDelete)
       IN  loop' = [loop EXCEPT ![1].before = loop[1].commentsToDelete,
                                ![1].commentsToDelete = after,
                                ![1].changed =
                                    Changed(Cardinality(loop[1].commentsToDelete),
                                            Cardinality(after)),
                                ![1].passes = @ + 1]
    /\ UNCHANGED <<db, now, userRequests, last, checks, mutations, probe, history,
                   disk, store>>

\* while (changed) finds changed false: the loop is left
WhileExit ==
    /\ loop[1].pc = "while"
    /\ ~loop[1].changed
    /\ loop' = [loop EXCEPT ![1].pc = "done"]
    /\ UNCHANGED <<db, now, userRequests, last, checks, mutations, probe, history,
                   disk, store>>

NextCascade ==
    \/ WhilePass
    \/ WhileExit

SpecCascade == InitCascade /\ [][NextCascade]_vars

(***************************************************************************)
(* SpecSession: the two validators applied to session objects of every     *)
(* shape, at every instant.                                                *)
(***************************************************************************)
ProbeUsers ==
    {Undefined, Null, Str("u1")}
      \cup {UserObj(id, "user") : id \in {Undefined, Str(""), Num(5), Str("u1")}}

ProbeSessions ==
    {Undefined, Null, Str("abc"), Num(7)}
      \cup {SessionObj(tok, usr, exp) :
              tok \in {Undefined, Str(""), Str("tok"), Num(1)},
              usr \in ProbeUsers,
              exp \in {Undefined, Str("soon")} \cup {Num(k) : k \in 0..(MaxClock + 1)}}

Validate ==
    /\ \E s \in ProbeSessions :
          probe' = [session |-> s, asked |-> TRUE, at |-> now,
                    local |-> validateSession(s, now),
                    shared |-> authValidateSession(s, now)]
    /\ UNCHANGED <<db, now, userRequests, last, checks, mutations, history, loop, disk, store>>

NextSession ==
    \/ Validate
    \/ Tick(1..MaxClock)

SpecSession == Init /\ [][NextSession]_vars

(***************************************************************************)
(* What the specification says of a stored list, stated on the comments    *)
(* themselves (their positions in the list), independently of the rescan.  *)
(***************************************************************************)
\* the positions of the direct replies to the id `target` or to a comment of `found`
RepliesTo(list, target, found) ==
    {i \in 1..Len(list) :
        /\ list[i].parentId.t = "string"
        /\ \/ list[i].parentId = target
           \/ \E j \in found : list[i].parentId = Str(list[j].id)}

\* the positions reachable from `target` in at most n parentId links
RECURSIVE RepliesWithin(_, _, _)
RepliesWithin(list, target, n) ==
    IF n = 0 THEN {}
    ELSE LET found == RepliesWithin(list, target, n - 1)
         IN  found \cup RepliesTo(list, target, found)

\* the positions of the direct and indirect replies to the id `target`
Replies(list, target) == RepliesWithin(list, target, Len(list))

\* the positions of the comment `target` itself
Named(list, target) == {i \in 1..Len(list) : Str(list[i].id) = target}

\* the list without the positions of `gone`, in its order
RECURSIVE Minus(_, _, _)
Minus(list, gone, i) ==
    IF i > Len(list) THEN <<>>
    ELSE (IF i \in gone THEN <<>> ELSE <<list[i]>>) \o Minus(list, gone, i + 1)

UniqueIds(list) ==
    \A i, j \in 1..Len(list) : list[i].id = list[j].id => i = j

\* the stored user of a validated session is an administrator
StoredAdmin(session) ==
    \E i \in 1..Len(getUsers) :
        getUsers[i].id = session.user.id.s /\ getUsers[i].role = "admin"

\* the session is a non-null object with a non-empty string token, a user
\* object with a non-empty string id, a numeric expires, and expires > clock
SessionOk(session, clock) ==
    /\ session.t = "object"
    /\ session.token.t = "string" /\ session.token.s # ""
    /\ session.user.t = "object"
    /\ session.user.id.t = "string" /\ session.user.id.s # ""
    /\ session.expires.t = "number"
    /\ session.expires.n > clock

(***************************************************************************)
(* Claims on DELETE.  `last` holds the request just answered and the       *)
(* document it found; db is the document it left.                          *)
(***************************************************************************)
Deleted == last.op = "DELETE" /\ last.status = 200
ListBefore == GetOrEmpty(last.before.comments, Key(last.movieId))
ListAfter == GetOrEmpty(db.comments, Key(last.movieId))

\* C1: after a successful admin DELETE(movieId, commentId) the movie's list is
\* exactly the previously stored comments that are neither commentId nor a
\* direct or indirect reply to it, in every shape of the reply tree.
C1_CascadeExact ==
    Deleted
      => ListAfter = Minus(ListBefore,
                           Named(ListBefore, last.commentId)
                             \cup Replies(ListBefore, last.commentId), 1)

\* C1 where no two comments of the movie share an id: the same statement
\* restricted to the lists whose ids are unique.
C1_CascadeExactUniqueIds ==
    Deleted /\ UniqueIds(ListBefore)
      => ListAfter = Minus(ListBefore,
                           Named(ListBefore, last.commentId)
                             \cup Replies(ListBefore, last.commentId), 1)

\* C2: after a successful admin DELETE(movieId, commentId) the ledger has no
\* entry keyed by commentId or by a direct or indirect reply to it.
C2_LedgerCascade ==
    Deleted
      => /\ Key(last.commentId) \notin DOMAIN db.upvotes
         /\ \A i \in Replies(ListBefore, last.commentId) :
               ListBefore[i].id \notin DOMAIN db.upvotes

\* C2 witness: a DELETE found votes on the comment and on a reply to it
C2_Witness ==
    /\ Deleted
    /\ Key(last.commentId) \in DOMAIN last.before.upvotes
    /\ \E i \in Replies(ListBefore, last.commentId) :
          /\ ListBefore[i].id \in DOMAIN last.before.upvotes
          /\ ListBefore[i].id # Key(last.commentId)

\* C3: a DELETE with a valid session whose stored user is not an administrator
\* answers 403 and leaves the document unchanged.
C3_NonAdminForbidden ==
    last.op = "DELETE" /\ SessionOk(last.session, last.at) /\ ~StoredAdmin(last.session)
      => last.status = 403 /\ db = last.before

\* C3 witness: the plain user's DELETE of a stored comment was answered 403
C3_Witness ==
    /\ last.op = "DELETE" /\ last.status = 403 /\ last.session = UserSession
    /\ Named(ListBefore, last.commentId) # {}

\* C4: a DELETE whose session claims the admin role while the stored user has
\* another role, or does not exist, deletes nothing and is not answered 200.
C4_StoredRoleDecides ==
    (/\ last.op = "DELETE"
     /\ last.session.t = "object" /\ last.session.user.t = "object"
     /\ last.session.user.role = "admin"
     /\ ~StoredAdmin(last.session))
      => last.status # 200 /\ db = last.before

\* C4 witness: a DELETE of a stored comment claiming the admin role for the
\* plain user u2 was answered 403
C4_Witness ==
    /\ last.op = "DELETE" /\ last.status = 403 /\ last.session = ForgedSession
    /\ Named(ListBefore, last.commentId) # {}

\* C5: a POST, PUT or DELETE whose session fails validation is answered 401,
\* whatever else the request holds and whatever the user's role, and leaves
\* the document unchanged.
C5_InvalidSessionRejected ==
    last.op \in {"POST", "PUT", "DELETE"} /\ ~SessionOk(last.session, last.at)
      => last.status = 401 /\ db = last.before

\* C5 witness: the DELETE of a stored comment with the admin's session, expired,
\* was answered 401
C5_Witness ==
    /\ last.op = "DELETE" /\ last.status = 401 /\ last.session = ExpiringSession
    /\ Named(ListBefore, last.commentId) # {}

(***************************************************************************)
(* Claims on session validation.                                           *)
(***************************************************************************)
\* C6: a session is accepted only if its expiry is strictly greater than the
\* current time, by either validator.
C6_ExpiryStrict ==
    probe.asked /\ (probe.local \/ probe.shared)
      => probe.session.expires.t = "number" /\ probe.session.expires.n > probe.at

\* C6 witness: a session whose fields are all valid and whose expiry equals
\* the current time has been refused
C6_Witness ==
    /\ probe.asked /\ ~probe.local /\ ~probe.shared
    /\ SessionOk(probe.session, probe.at - 1)
    /\ probe.session.expires.n = probe.at

\* C7: validateSession returns true exactly when the session is a non-null
\* object with a non-empty string token, a user object with a non-empty string
\* id, a numeric expires and expires > now.
C7_ValidateExact ==
    probe.asked
      => /\ probe.local <=> SessionOk(probe.session, probe.at)
         /\ probe.shared <=> SessionOk(probe.session, probe.at)

\* C7 witness: a session has been accepted
C7_Witness ==
    probe.asked /\ probe.local /\ probe.shared /\ SessionOk(probe.session, probe.at)

\* C33: the validator of the comments API and the shared validator return
\* the same verdict for every session object at every current time.
C33_ValidatorsAgree ==
    probe.asked => (probe.local <=> probe.shared)

\* C33 witness: both validators refused a session that is valid but for its
\* token, the empty string
C33_Witness ==
    /\ probe.asked /\ ~probe.local /\ ~probe.shared
    /\ probe.session.t = "object"
    /\ probe.session.token = Str("")
    /\ SessionOk([probe.session EXCEPT !.token = Str("tok")], probe.at)

(***************************************************************************)
(* SpecRate: the rate-limited endpoints.  The instants are the start, then *)
(* by turns the first millisecond of the next window and the millisecond   *)
(* after it: 1, 60000, 60001, 120000, ...  Two of them are a whole window  *)
(* apart (1 and 60001) or one millisecond short of it (1 and 60000).       *)
(***************************************************************************)
Instant(i) ==
    IF i = 0 THEN 1 ELSE ((i + 1) \div 2) * RATE_LIMIT_WINDOW_MS + ((i + 1) % 2)

RateInstants == {Instant(i) : i \in 0..MaxRateTick}

\* the admin's session, the same session expiring at instant 2, a session of
\* the admin without token, and no session
RateSessions == {AdminSession, ExpiringSession, NoTokenSession, Null}

\* the history of the checks: every admitted check, and a rejected check
\* unless it repeats the entry before it
Logged(log, entry) ==
    IF log # <<>> /\ ~entry.ok /\ log[Len(log)] = entry THEN log ELSE Append(log, entry)

Observe ==
    checks' =
        IF last'.status \in {200, 429}
        THEN LET uid == last'.session.user.id.s
             IN  SetKey(checks, uid,
                        Logged(GetOrEmpty(checks, uid),
                               [at |-> now, ok |-> last'.status = 200]))
        ELSE checks

Youtube ==
    /\ last = NoRequest
    /\ \E s \in RateSessions : YoutubeDownloader(s)
    /\ Observe
    /\ UNCHANGED <<db, now, mutations, probe, history, loop, disk, store>>

Azure ==
    /\ last = NoRequest
    /\ \E s \in RateSessions : AzureAi(s)
    /\ Observe
    /\ UNCHANGED <<db, now, mutations, probe, history, loop, disk, store>>

NextRate ==
    \/ Youtube
    \/ Azure
    \/ Settle
    \/ Tick(RateInstants)

SpecRate == Init /\ [][NextRate]_vars

(***************************************************************************)
(* SpecMutations: the comment mutations of one user, with the history of   *)
(* the instants at which a mutation of that user succeeded.  The history   *)
(* stops one entry after the rate limiter's ceiling.                       *)
(***************************************************************************)
ObserveMutation ==
    mutations' =
        IF last'.status \in {200, 201}
        THEN LET uid == last'.session.user.id.s
             IN  SetKey(mutations, uid, Append(GetOrEmpty(mutations, uid), now))
        ELSE mutations

MutationsOpen ==
    \A u \in DOMAIN mutations : Len(mutations[u]) <= MAX_REQUESTS_PER_WINDOW

CountedAdd ==
    /\ MutationsOpen
    /\ Post(MaxComments, {<<Str("m1"), CommentData(Undefined, <<"o", "k">>, Num(5))>>},
            {AdminSession})
    /\ ObserveMutation
    /\ UNCHANGED <<checks, probe, history, loop, store>>

CountedToggle ==
    /\ MutationsOpen
    /\ Upvote({Str(CommentId(1))}, {AdminSession})
    /\ ObserveMutation
    /\ UNCHANGED <<checks, probe, history, loop, store>>

CountedDelete ==
    /\ MutationsOpen
    /\ Delete({Str("m1")}, {Str(CommentId(1))}, {AdminSession})
    /\ ObserveMutation
    /\ UNCHANGED <<checks, probe, history, loop, store>>

NextMutations ==
    \/ CountedAdd
    \/ CountedToggle
    \/ CountedDelete
    \/ Settle
    \/ Tick(RateInstants)

SpecMutations == Init /\ [][NextMutations]_vars

(***************************************************************************)
(* Claims on the rate limiter.  The history is in the order of the clock.  *)
(***************************************************************************)
\* the instants of the admitted checks of a history, in order
RECURSIVE AdmittedAt(_)
AdmittedAt(log) ==
    IF log = <<>> THEN <<>>
    ELSE (IF Head(log).ok THEN <<Head(log).at>> ELSE <<>>) \o AdmittedAt(Tail(log))

\* the request just answered is a rate-limit check of a valid session
Checked == last.op \in {"YOUTUBE", "AZURE"} /\ SessionOk(last.session, last.at)

\* the admitted checks of the history of last's user before last's own check
AdmittedBefore ==
    LET all == AdmittedAt(GetOrEmpty(checks, last.session.user.id.s))
    IN  IF last.status = 200 THEN SubSeq(all, 1, Len(all) - 1) ELSE all

\* how many of the instants of a sequence lie less than a window before t
RECURSIVE WithinWindow(_, _)
WithinWindow(times, t) ==
    IF times = <<>> THEN 0
    ELSE (IF t - Head(times) < RATE_LIMIT_WINDOW_MS THEN 1 ELSE 0)
           + WithinWindow(Tail(times), t)

\* C8: for every user, no 60-second window holds more than 20 admitted checks
\* (the 21st admitted check counted from any admitted one lies a whole window
\* after it), and a check that finds 20 admitted checks within the last 60
\* seconds is rejected.
C8_WindowCeiling ==
    /\ \A u \in DOMAIN checks :
          LET times == AdmittedAt(checks[u])
          IN  \A i \in 1..(Len(times) - MAX_REQUESTS_PER_WINDOW) :
                 times[i + MAX_REQUESTS_PER_WINDOW] - times[i] >= RATE_LIMIT_WINDOW_MS
    /\ Checked /\ WithinWindow(AdmittedBefore, last.at) >= MAX_REQUESTS_PER_WINDOW
         => last.status = 429

\* C8 witness: the 21st check within a window was rejected, the 20 admitted
\* checks before it made at two instants
C8_Witness ==
    /\ Checked /\ last.status = 429
    /\ WithinWindow(AdmittedBefore, last.at) = MAX_REQUESTS_PER_WINDOW
    /\ AdmittedBefore[1] # AdmittedBefore[MAX_REQUESTS_PER_WINDOW]

\* C9: a check of a user who has been at the ceiling is admitted once every
\* admitted check of that user is at least 60 seconds old, whatever was
\* rejected in between; a rejected check records nothing.
C9_AdmittedAfterWindow ==
    /\ (/\ Checked
        /\ Len(AdmittedBefore) >= MAX_REQUESTS_PER_WINDOW
        /\ WithinWindow(AdmittedBefore, last.at) = 0)
         => last.status = 200
    /\ Checked /\ last.status = 429 => userRequests = last.requestsBefore

\* C9 witness: a check was admitted exactly 60 seconds after the 20 admitted
\* checks of the user, the history holding a rejected check after them
C9_Witness ==
    /\ Checked /\ last.status = 200
    /\ Len(AdmittedBefore) = MAX_REQUESTS_PER_WINDOW
    /\ \A i \in 1..Len(AdmittedBefore) :
          last.at - AdmittedBefore[i] = RATE_LIMIT_WINDOW_MS
    /\ LET log == checks[last.session.user.id.s]
       IN  \E j \in 1..Len(log) :
              ~log[j].ok /\ log[j].at > AdmittedBefore[MAX_REQUESTS_PER_WINDOW]

Mutating == last.op \in {"POST", "PUT", "DELETE"} /\ SessionOk(last.session, last.at)

\* the successful mutations of last's user before last's own request
MutationsBefore ==
    LET all == GetOrEmpty(mutations, last.session.user.id.s)
    IN  IF last.status \in {200, 201} THEN SubSeq(all, 1, Len(all) - 1) ELSE all

\* C10: once a user has had 20 comment mutations (add, toggle, delete) admitted
\* within 60 seconds, a further one by that user is answered 429 and leaves
\* the document unchanged.
C10_MutationsRateLimited ==
    Mutating /\ WithinWindow(MutationsBefore, last.at) >= MAX_REQUESTS_PER_WINDOW
      => last.status = 429 /\ db = last.before

(***************************************************************************)
(* Claims on the vote ledger.                                              *)
(***************************************************************************)
\* the voters of the comment id `commentId` in the ledger of `doc`
VotersOf(doc, commentId) ==
    LET list == GetOrEmpty(doc.upvotes, Key(commentId))
    IN  {list[i] : i \in 1..Len(list)}

\* the request just answered is a toggle with a valid session
Toggled == last.op = "PUT" /\ SessionOk(last.session, last.at)

\* C11: a toggle with a valid session of user U on comment id X succeeds,
\* removes U from the voters of X when U is one of them and adds U when not,
\* the other voters staying, and answers the voter list of X as stored.
C11_ToggleMembership ==
    Toggled
      => LET U == last.session.user.id.s
             was == VotersOf(last.before, last.commentId)
         IN  /\ last.status = 200
             /\ VotersOf(db, last.commentId) = (IF U \in was THEN was \ {U} ELSE was \cup {U})
             /\ Key(last.commentId) \in DOMAIN db.upvotes
             /\ last.body = db.upvotes[Key(last.commentId)]

\* C11 witness: a toggle withdrew the user's vote and left another user's
C11_Witness ==
    /\ Toggled /\ last.status = 200
    /\ last.session.user.id.s \in VotersOf(last.before, last.commentId)
    /\ Cardinality(VotersOf(last.before, last.commentId)) = 2
    /\ Cardinality(VotersOf(db, last.commentId)) = 1

\* the toggle just answered repeats the toggle answered before it: the same
\* user on the same comment id, no request in between
ToggledTwice ==
    /\ Toggled /\ last.status = 200
    /\ history.previous.op = "PUT"
    /\ Key(history.previous.commentId) = Key(last.commentId)
    /\ history.previous.userId = last.session.user.id.s

\* C12: two toggles in succession by user U on comment id X leave the voters
\* of X, as a set, as they were before the two toggles.
C12_ToggleTwice ==
    ToggledTwice
      => VotersOf(db, last.commentId)
           = {history.previous.voters[i] : i \in 1..Len(history.previous.voters)}

\* C12 witness: two toggles in succession left the same voters in another
\* order, two users having voted before
C12_Witness ==
    /\ ToggledTwice
    /\ Len(history.previous.voters) = 2
    /\ db.upvotes[Key(last.commentId)] # history.previous.voters

\* C13: from the empty ledger, after any sequence of toggles, no user id
\* appears more than once in the voter list of any comment id.
C13_NoDuplicateVoter ==
    \A k \in DOMAIN db.upvotes :
        \A i, j \in 1..Len(db.upvotes[k]) : db.upvotes[k][i] = db.upvotes[k][j] => i = j

\* C13 witness: a user who had withdrawn a vote has voted again and is the
\* third voter of the comment id
C13_Witness ==
    /\ ToggledTwice
    /\ Len(db.upvotes[Key(last.commentId)]) = 3
    /\ db.upvotes[Key(last.commentId)][3] = last.session.user.id.s

(***************************************************************************)
(* Claims on concurrent requests.  history.serial is the document obtained *)
(* by applying the changes of the requests one after the other, in the     *)
(* order in which their handlers wrote.                                    *)
(***************************************************************************)
\* C14: the read-change-write sequences of concurrent mutating requests do
\* not interleave and no update is lost: a handler that has read the document
\* finds it unchanged when it writes, and the persisted document is the one
\* the requests produce one after the other.
C14_Serialized ==
    /\ \A i \in 1..Len(loop) : loop[i].pc = "read" => loop[i].read = db
    /\ db = history.serial

\* C14 witness: two requests were in flight together, the second received
\* before the first was entered, and both have changed the document
C14_Witness ==
    /\ Len(loop) >= 2
    /\ loop[1].pc = "done" /\ loop[2].pc = "done"
    /\ loop[1].req.op = "POST" /\ loop[2].req.op = "PUT"
    /\ loop[2].read # EmptyDb
    /\ Exists(db, CommentId(1))
    /\ VotersOf(db, Str(CommentId(1))) # {}

(***************************************************************************)
(* Claims on add-comment.                                                  *)
(***************************************************************************)
\* C15: in every reachable state no two comments of the document share an id.
C15_UniqueIds ==
    \A m1, m2 \in DOMAIN db.comments :
        \A i \in 1..Len(db.comments[m1]), j \in 1..Len(db.comments[m2]) :
            db.comments[m1][i].id = db.comments[m2][j].id => m1 = m2 /\ i = j

\* the request just answered is an add-comment that stored a comment
Added == last.op = "POST" /\ last.status = 201

\* C16: a comment stored by add-comment with a non-null parentId names, when
\* it is created, a comment of the same movie's list.
C16_ParentExists ==
    Added
      => LET stored == ListAfter[Len(ListAfter)]
         IN  stored.parentId # Null => Named(ListBefore, stored.parentId) # {}

(***************************************************************************)
(* Claims on GET.  ListBefore is the movie's stored list, whose positions  *)
(* name the comments of the response.                                      *)
(***************************************************************************)
Got == last.op = "GET" /\ last.status = 200

\* the positions a sequence of positions holds
Held(positions) == {positions[i] : i \in 1..Len(positions)}

\* the positions held by some replies list of the response
Nested == UNION {Held(last.body.replies[p]) : p \in DOMAIN last.body.replies}

\* the comment at position i names, as its parent, a comment of the list
HasParent(list, i) ==
    list[i].parentId # Null /\ Named(list, list[i].parentId) # {}

\* C17: GET puts every comment whose parentId is the id of a comment of the
\* movie's list into the replies of a comment with that id and not among the
\* roots, and returns every other comment (parentId null, or naming no comment
\* of the movie) as a root, in no replies list.
C17_ThreadPlacement ==
    Got
      => \A i \in 1..Len(ListBefore) :
            IF HasParent(ListBefore, i)
            THEN /\ \E p \in Named(ListBefore, ListBefore[i].parentId) :
                       i \in Held(last.body.replies[p])
                 /\ i \notin Held(last.body.comments)
            ELSE /\ i \in Held(last.body.comments)
                 /\ i \notin Nested

\* C17 witness: a thread was read that holds a root, a reply to it and an
\* orphan, the orphan returned as a root
C17_Witness ==
    /\ Got
    /\ \E i, j, k \in 1..Len(ListBefore) :
          /\ ListBefore[i].parentId = Null
          /\ ListBefore[j].parentId = Str(ListBefore[i].id)
          /\ j \in Held(last.body.replies[i])
          /\ ListBefore[k].parentId # Null /\ ~HasParent(ListBefore, k)
          /\ k \in Held(last.body.comments)

\* C18: GET returns the roots newest first, and the replies of each comment
\* in the order in which they stand in the stored list.
C18_ThreadOrder ==
    Got
      => /\ \A a, b \in 1..Len(last.body.comments) :
               a < b => GetTime(ListBefore[last.body.comments[a]].date)
                          >= GetTime(ListBefore[last.body.comments[b]].date)
         /\ \A p \in DOMAIN last.body.replies :
               \A a, b \in 1..Len(last.body.replies[p]) :
                   a < b => last.body.replies[p][a] < last.body.replies[p][b]

\* C18 witness: a thread was read whose first root is newer than its second
\* and stands behind it in the stored list, one of the two having a reply
C18_Witness ==
    /\ Got
    /\ Len(last.body.comments) = 2
    /\ GetTime(ListBefore[last.body.comments[1]].date)
         > GetTime(ListBefore[last.body.comments[2]].date)
    /\ last.body.comments[1] > last.body.comments[2]
    /\ \E p \in Held(last.body.comments) : Len(last.body.replies[p]) = 1

\* C19: the upvotes GET returns for a movie are exactly the ledger entries
\* whose key is the id of a comment stored under that movie, each with its
\* voter list.
C19_UpvotesOfMovie ==
    Got
      => /\ DOMAIN last.body.upvotes
              = {k \in DOMAIN db.upvotes :
                    \E i \in 1..Len(ListBefore) : ListBefore[i].id = k}
         /\ \A k \in DOMAIN last.body.upvotes : last.body.upvotes[k] = db.upvotes[k]

\* C19 witness: a thread was read with the votes of its comment, the ledger
\* holding votes on an id that is no comment of the movie
C19_Witness ==
    /\ Got
    /\ \E k \in DOMAIN last.body.upvotes : last.body.upvotes[k] # <<>>
    /\ \E k \in DOMAIN db.upvotes : k \notin DOMAIN last.body.upvotes /\ db.upvotes[k] # <<>>

\* the positions reached from a set of positions by k descents into replies
RECURSIVE Descend(_, _)
Descend(seen, k) ==
    IF k = 0 THEN seen
    ELSE Descend(seen \cup UNION {Held(last.body.replies[p]) : p \in seen}, k - 1)

\* the comments of the response: the roots and all that hangs below them
InTree == Descend(Held(last.body.comments), Len(ListBefore))

\* how often position i stands in the response
Occurrences(i) ==
    (IF i \in Held(last.body.comments) THEN 1 ELSE 0)
      + Cardinality({p \in InTree : i \in Held(last.body.replies[p])})

\* C34: the tree GET returns for a movie holds every comment stored for the
\* movie exactly once, as a root or in one replies list reachable from a
\* root: none is missing, none is returned twice.
C34_TreeComplete ==
    Got => \A i \in 1..Len(ListBefore) : i \in InTree /\ Occurrences(i) = 1

\* C20: a toggle on an id that names no comment is answered 200, and the vote
\* it records is in the upvotes of no GET response, then or later.
C20_PhantomVoteHidden ==
    /\ Toggled /\ ~Exists(last.before, Key(last.commentId)) => last.status = 200
    /\ Got => \A v \in history.phantom :
                 v[1] \in DOMAIN last.body.upvotes
                   => \A i \in 1..Len(last.body.upvotes[v[1]]) :
                         last.body.upvotes[v[1]][i] # v[2]

(***************************************************************************)
(* Claims on the stored comments.                                          *)
(***************************************************************************)
\* C21: in every reachable state no stored comment with a non-null parentId
\* carries a rating, whatever rating the payload of the reply supplied.
C21_NoRatingOnReply ==
    \A m \in DOMAIN db.comments :
        \A i \in 1..Len(db.comments[m]) :
            db.comments[m][i].parentId # Null => db.comments[m][i].rating = Undefined

\* C21 witness: a reply whose payload supplied a rating was stored without it,
\* next to a root that kept its rating
C21_Witness ==
    /\ Added
    /\ last.commentData.parentId # Undefined /\ last.commentData.rating = Num(5)
    /\ last.body[1].rating = Undefined
    /\ \E i \in 1..Len(ListAfter) : ListAfter[i].rating = Num(5)

\* s is t with some of its elements left out, the others in their order
RECURSIVE IsSubSeq(_, _)
IsSubSeq(s, t) ==
    IF s = <<>> THEN TRUE
    ELSE IF t = <<>> THEN FALSE
    ELSE IF Head(s) = Head(t) THEN IsSubSeq(Tail(s), Tail(t))
    ELSE IsSubSeq(s, Tail(t))

\* the comments of movie key m after the request that were stored before it
KeptOf(m) ==
    LET list == GetOrEmpty(db.comments, m)
    IN  IF Added /\ Key(last.movieId) = m THEN SubSeq(list, 1, Len(list) - 1) ELSE list

\* C23: a stored comment keeps all its fields while it is stored: after an
\* add, a toggle or a GET every list holds the comments it held, unchanged and
\* in their order, and after a delete the comments that remain are unchanged.
C23_CommentsImmutable ==
    last # NoRequest
      => \A m \in DOMAIN db.comments \cup DOMAIN last.before.comments :
            /\ IsSubSeq(KeptOf(m), GetOrEmpty(last.before.comments, m))
            /\ ~Deleted => KeptOf(m) = GetOrEmpty(last.before.comments, m)

\* C23 witness: a delete removed one comment of a list of two and left the
\* other, a reply
C23_Witness ==
    /\ Deleted
    /\ Len(ListBefore) = 2 /\ Len(ListAfter) = 1
    /\ ListAfter[1].parentId # Null

\* C24: a successful add-comment appends the new comment, the one it returns,
\* at the end of movieId's list and changes nothing else: the other comments
\* of that list, the lists of the other movies and the ledger are as before.
C24_AddAppendsOne ==
    Added
      => /\ ListAfter = Append(ListBefore, last.body[1])
         /\ DOMAIN db.comments = DOMAIN last.before.comments \cup {Key(last.movieId)}
         /\ \A m \in DOMAIN last.before.comments :
               m # Key(last.movieId) => db.comments[m] = last.before.comments[m]
         /\ db.upvotes = last.before.upvotes

\* C24 witness: a comment was added to a list that held one, the ledger
\* holding a vote on that one
C24_Witness ==
    /\ Added
    /\ Len(ListBefore) = 1
    /\ VotersOf(db, Str(ListBefore[1].id)) # {}

\* C25: an add-comment with a valid session whose user id is not in the users
\* collection is answered 404 and leaves the document unchanged.
C25_UnknownUserNotFound ==
    (/\ last.op = "POST"
     /\ SessionOk(last.session, last.at)
     /\ \A i \in 1..Len(getUsers) : getUsers[i].id # last.session.user.id.s)
      => last.status = 404 /\ db = last.before

\* C25 witness: the add-comment of the unknown user u3 on a document that
\* holds a comment was answered 404
C25_Witness ==
    /\ last.op = "POST" /\ last.status = 404 /\ last.session = GhostSession
    /\ last.commentData # Undefined
    /\ Stored > 0

(***************************************************************************)
(* Claims on the request fields.                                           *)
(***************************************************************************)
\* how many elements of the sequence str are the character ch
Count(str, ch) == Cardinality({i \in 1..Len(str) : str[i] = ch})

\* C22: the body of every stored comment holds no '<' and no '>', and the
\* body an add-comment stores is the payload's with every '<' and every '>'
\* replaced by its escaped form, the other characters kept.
C22_BodyEscaped ==
    /\ \A m \in DOMAIN db.comments :
          \A i \in 1..Len(db.comments[m]) :
              Count(db.comments[m][i].comment, "<") + Count(db.comments[m][i].comment, ">") = 0
    /\ Added
         => LET sent == last.commentData.comment.c
                kept == last.body[1].comment
            IN  /\ Count(kept, "l") = Count(sent, "<")
                /\ Count(kept, "g") = Count(sent, ">")
                /\ Count(kept, "&") = Count(sent, "<") + Count(sent, ">")
                /\ Count(kept, "a") = Count(sent, "a")
                /\ Len(kept) = Len(sent) + 3 * (Count(sent, "<") + Count(sent, ">"))

\* C22 witness: a body with two '<' was stored
C22_Witness ==
    /\ Added
    /\ Count(last.commentData.comment.c, "<") = 2
    /\ last.body[1].comment = <<"&", "l", "t", ";", "&", "l", "t", ";">>

\* C30: a request that lacks a required field changes nothing: GET without
\* movieId is answered 400, and an add-comment with a valid session without
\* movieId or without commentData is not answered 201 and stores no comment.
C30_MissingFieldsRejected ==
    /\ last.op = "GET" /\ Falsy(last.movieId) => last.status = 400 /\ db = last.before
    /\ (/\ last.op = "POST" /\ SessionOk(last.session, last.at)
        /\ (Falsy(last.movieId) \/ last.commentData = Undefined))
         => last.status # 201 /\ db = last.before

(***************************************************************************)
(* Claims on the document on disk.                                         *)
(***************************************************************************)
\* the file at the target path
Target == FileAt(COMMENTS_PATH)

\* the request just answered is a mutating one that reported success
Succeeded == last.op \in {"POST", "PUT", "DELETE"} /\ last.status \in {200, 201}

\* the document the handler of the request answered by `answer` handed to
\* writeCommentsDb
DocumentWritten(answer) ==
    IF answer.op = "POST"
    THEN PostDocument(answer.before, answer.movieId, answer.body[1])
    ELSE IF answer.op = "PUT"
    THEN PutDocument(answer.before, answer.commentId, answer.body)
    ELSE DeleteDocument(answer.before, answer.movieId, answer.commentId)

\* C26: whatever step of the write of a document a crash interrupts (before,
\* during or after the temporary-file write, before or after the rename), the
\* file at the target path holds the complete previous content or the complete
\* new content, and at no step a text that does not parse.
C26_CrashLeavesWholeFile ==
    /\ Target.exists => JsonParse(Target).ok
    /\ (store.pc # "idle" \/ store.result = "crashed")
         => Target = store.old \/ Target = JsonStringify(store.data)

\* C26 witness: the process crashed while the temporary file held a part of
\* the new text, and the target holds the previous document, another one
C26_Witness ==
    /\ store.result = "crashed"
    /\ disk.files[tempPath(COMMENTS_PATH)].exists
    /\ disk.files[tempPath(COMMENTS_PATH)].len \in 1..(Len(JsonChunks) - 1)
    /\ Target.exists
    /\ Target = store.old
    /\ Target # JsonStringify(store.data)

\* C27: no add, toggle or delete is answered with success, and no saveComments
\* resolves, unless the file at the target path holds the document it wrote;
\* a write that fails is answered with an error or a rejection.
C27_FailurePropagated ==
    /\ Succeeded => Target = JsonStringify(DocumentWritten(last))
    /\ store.result = "resolved" => Target = JsonStringify(store.data)

\* C27 witness: an add-comment with a valid session and a valid payload met a
\* failing disk: it was answered 500 and the file holds the document of before
C27_Witness ==
    /\ last.op = "POST"
    /\ last.status = 500
    /\ SessionOk(last.session, last.at)
    /\ last.commentData.t = "object"
    /\ disk.failing
    /\ db = last.before
    /\ Target.exists
    /\ Target = JsonStringify(last.before)

\* C28: a read of the comments document whose file is absent or does not
\* parse returns the empty document, by either reader.
C28_DefaultOnUnreadable ==
    (store.got.by # "" /\ (~Target.exists \/ ~JsonParse(Target).ok))
      => store.got.value = EmptyDb

C32_RescanTerminates ==
    LET f == loop[1]
    IN  /\ f.before \subseteq f.commentsToDelete
        /\ Cardinality(f.commentsToDelete) <= Len(f.movieComments) + 1
        /\ f.passes <= Len(f.movieComments) + 1
        /\ f.pc = "done"
             => f.commentsToDelete = CommentsToDelete(f.movieComments, f.commentId)

\* C32 witness: the loop was left after three passes on a list of three
\* comments with three ids, each with a parent in the list (so the links
\* close a cycle), all of them in the working set
C32_Witness ==
    LET f == loop[1]
    IN  /\ f.pc = "done"
        /\ f.passes = 3
        /\ Len(f.movieComments) = 3
        /\ {f.movieComments[i].id : i \in 1..3} = ScanIds
        /\ \A i \in 1..3 :
              /\ ~Falsy(f.movieComments[i].parentId)
              /\ Str(f.movieComments[i].id) \in f.commentsToDelete

(***************************************************************************)
(* Claims on what a delete leaves alone.                                   *)
(***************************************************************************)
\* C35: a successful DELETE(movieId, commentId) removes the ledger entry of no
\* comment that is still stored after it: the votes of every comment the
\* document holds, in any movie, are as they were.
C35_StoredVotesKept ==
    Deleted
      => \A k \in DOMAIN last.before.upvotes :
            Exists(db, k) => k \in DOMAIN db.upvotes /\ db.upvotes[k] = last.before.upvotes[k]

\* the ids a delete removed: commentId and the ids no comment of the list has
\* any more
DeletedIds ==
    {Key(last.commentId)}
      \cup ({ListBefore[i].id : i \in 1..Len(ListBefore)}
              \ {ListAfter[i].id : i \in 1..Len(ListAfter)})

\* C36: a successful DELETE(movieId, commentId) leaves the list of every other
\* movie as it was, keeps the comments that remain in movieId's list with
\* their fields and in their order, and leaves every ledger entry whose key is
\* not a deleted id as it was.
C36_DeleteFrame ==
    Deleted
      => /\ DOMAIN db.comments = DOMAIN last.before.comments \cup {Key(last.movieId)}
         /\ \A m \in DOMAIN last.before.comments :
               m # Key(last.movieId) => db.comments[m] = last.before.comments[m]
         /\ IsSubSeq(ListAfter, ListBefore)
         /\ DOMAIN db.upvotes = DOMAIN last.before.upvotes \ DeletedIds
         /\ \A k \in DOMAIN db.upvotes : db.upvotes[k] = last.before.upvotes[k]

\* C36 witness: a delete removed one comment of two with its votes and left
\* the other, the votes on that one as they were
C36_Witness ==
    /\ Deleted
    /\ Len(ListBefore) = 2 /\ Len(ListAfter) = 1
    /\ Key(last.commentId) \in DOMAIN last.before.upvotes
    /\ ListAfter[1].id \in DOMAIN db.upvotes
    /\ db.upvotes[ListAfter[1].id] # <<>>
    /\ db.upvotes[ListAfter[1].id] = last.before.upvotes[ListAfter[1].id]

\* C37: after a successful DELETE no comment that remains in the movie's list
\* has a parentId that is the id of a comment the delete removed: the cascade
\* makes no orphan.
C37_NoNewOrphan ==
    Deleted
      => \A i \in 1..Len(ListAfter) :
            \A k \in DeletedIds : ListAfter[i].parentId # Str(k)

\* C37 witness: a delete removed a comment and a reply that stood before it in
\* the list, and left a comment that has a parentId
C37_Witness ==
    /\ Deleted
    /\ Len(ListBefore) = 3 /\ Len(ListAfter) = 1
    /\ ListAfter[1].parentId # Null
    /\ \E i, j \in 1..Len(ListBefore) :
          /\ i < j
          /\ ListBefore[i].parentId = Str(ListBefore[j].id)
          /\ ListBefore[i].id # ListBefore[j].id
          /\ {ListBefore[i].id, ListBefore[j].id} \subseteq DeletedIds

(***************************************************************************)
(* Claims on what a toggle and a GET leave alone.                          *)
(***************************************************************************)
\* the voter list without user uid, in its order
Others(doc, commentId, uid) ==
    SelectSeq(GetOrEmpty(doc.upvotes, Key(commentId)), LAMBDA id : id # uid)

\* C38: a toggle by user U on comment id X changes nothing but U's membership
\* in the ledger entry of X: the comment lists and every other ledger entry
\* are as before, and the other voters of X are as before.
C38_ToggleFrame ==
    Toggled
      => /\ db.comments = last.before.comments
         /\ DOMAIN db.upvotes = DOMAIN last.before.upvotes \cup {Key(last.commentId)}
         /\ \A k \in DOMAIN last.before.upvotes :
               k # Key(last.commentId) => db.upvotes[k] = last.before.upvotes[k]
         /\ Others(db, last.commentId, last.session.user.id.s)
               = Others(last.before, last.commentId, last.session.user.id.s)

\* C38 witness: a user voted on a stored comment that had another user's vote,
\* the ledger holding votes on another comment
C38_Witness ==
    /\ Toggled /\ last.status = 200
    /\ Exists(db, Key(last.commentId))
    /\ Others(db, last.commentId, last.session.user.id.s) # <<>>
    /\ last.session.user.id.s \in VotersOf(db, last.commentId)
    /\ \E k \in DOMAIN db.upvotes : k # Key(last.commentId) /\ db.upvotes[k] # <<>>

\* C39: a GET changes neither the document nor the files, and the replies
\* lists of its response are written nowhere: no stored comment ever has a
\* replies field.
C39_GetReadsOnly ==
    /\ [][last'.op = "GET" /\ last.op # "GET" => db' = db /\ disk' = disk]_vars
    /\ [](\A m \in DOMAIN db.comments :
             \A i \in 1..Len(db.comments[m]) : "replies" \notin DOMAIN db.comments[m][i])

\* C39 witness: a GET has returned a root with a reply in its replies list,
\* and the document in the file is the one the GET found
C39_Witness ==
    /\ Got
    /\ \E p \in Held(last.body.comments) : last.body.replies[p] # <<>>
    /\ db = last.before
    /\ Target = JsonStringify(last.before)

====
